---------------------------- MODULE Spec2Model ----------------------------
(***************************************************************************)
(* VEIL: audio -> deterministic structure ("DNA") -> two visual modes.     *)
(*                                                                         *)
(* Number representation.                                                  *)
(*   - A 32-bit integer (the result of Math.imul or of `| 0`) is a pair    *)
(*     <<hi, lo>> of 16-bit halves, so that two's-complement wraparound is *)
(*     exact.                                                              *)
(*   - A sample of channel 0 is an integer number of 1/SampleDen.          *)
(*   - A seed / hash string is the sequence of its character codes.        *)
(*   - A coordinate is an integer number of hundredths; a hue is an        *)
(*     integer number of thousandths; a zero-crossing ratio is an integer  *)
(*     number of millionths.                                               *)
(***************************************************************************)
EXTENDS Integers, Sequences, FiniteSets, TLC

\* the value of 0 / 0, kept apart from every number the model computes
NaN == -1000000000

Min(a, b) == IF a < b THEN a ELSE b
Max(a, b) == IF a > b THEN a ELSE b
Abs(a)    == IF a < 0 THEN -a ELSE a
\* truncation toward zero of the quotient n / d, d > 0 (what `| 0` does)
Trunc(n, d) == IF n >= 0 THEN n \div d ELSE -((-n) \div d)

(***************************************************************************)
(* Bounds of the model                                                     *)
(***************************************************************************)
MaxCalls == 2      \* recorded calls of the pure-function specifications
MaxDraws == 3      \* draws taken from each of the two observed random streams
MaxInst  == 3      \* mode instances ever constructed, the boot instance included
MaxTime  == 3      \* seconds after which the audio clock stops advancing
MaxLoads == 2      \* files chosen in the file input
MaxTasks == 2      \* handlers suspended at an await at one time
MaxEnded == 1      \* 'ended' events queued and not yet dispatched

(***************************************************************************)
(* State                                                                   *)
(***************************************************************************)
VARIABLES
    pIn,        \* pure functions: the inputs drawn, [buf, seed, other]
    pLog,       \* pure functions: the recorded calls, [fn, arg, out, between]
    pBetween,   \* a call on other audio was made since the last recorded call
    pNodes,     \* this.nodes of the NeuralMap instance the calls are made on
    pRandH,     \* closure variable h of the stream made by the latest call
    pInstHash,  \* this.songHash / this.audioHash of the instance called
    pStreams,   \* the two random streams observed: [made, h, draws]
    transport,          \* shared.transport: the AudioTransport fields
    actx,               \* shared.audioContext and the source node it plays
    shared,             \* shared.lastAudioBuffer, shared.songHash
    currentVisualizer,  \* index in insts of the current mode instance, 0 for null
    lastMapData,        \* main.js lastMapData: [isNull, recs]
    insts,              \* every mode instance constructed so far
    rafQueue,           \* instances with a frame callback requested and not yet run
    tasks,              \* handlers suspended at an await
    buttons,            \* playBtn.disabled, pauseBtn.disabled
    loads,              \* files chosen so far
    last,               \* what the latest step did (observer)
    gal                 \* a NeuralGalaxy instance taken on its own: the fields
                        \* the operation under study reads and writes

pureVars == <<pIn, pLog, pBetween, pNodes, pRandH, pInstHash, pStreams>>
appVars  == <<transport, actx, shared, currentVisualizer, lastMapData, insts,
              rafQueue, tasks, buttons, loads, last>>
vars     == <<pureVars, appVars, gal>>

(***************************************************************************)
(* Program constants                                                       *)
(***************************************************************************)
MinNodes   == 50          \* Math.max(50, ...)
MaxNodes   == 200         \* Math.min(200, ...)
HashStride == 1000        \* i += 1000
HashScale  == 100000      \* data[i] * 100000
maxDist    == 8           \* const maxDist = 8
StarsMin   == 900         \* Math.max(900, ...)
StarsMax   == 4000        \* Math.min(4000, ...)
SampleDen  == 4           \* resolution of a sample: quarters of full scale

(***************************************************************************)
(* 32-bit arithmetic                                                       *)
(***************************************************************************)
W16 == 65536

Word(hi, lo) == <<hi, lo>>
Zero32 == Word(0, 0)

\* (x * y) mod 2^16 for 16-bit x, y, without leaving 31 bits
MulLo16(x, y) ==
    (((x % 256) * y) + ((((x \div 256) * y) % 256) * 256)) % W16

\* Math.imul(a, b): the low 32 bits of the product
imul(a, b) ==
    LET al == a[2]  ah == a[1]  bl == b[2]  bh == b[1]
        P0 == (al % 256) * bl
        P1 == (al \div 256) * bl
        S  == P0 + ((P1 % 256) * 256)
        carry == (S \div W16) + (P1 \div 256)
    IN  Word((carry + MulLo16(al, bh) + MulLo16(ah, bl)) % W16, S % W16)

\* (w + k) | 0 for a small integer k (|k| < 2^30)
AddInt32(w, k) ==
    LET s == w[2] + k
    IN  Word((w[1] + (s \div W16)) % W16, s % W16)

C31      == Word(0, 31)
LcgMul   == Word(25, 26125)        \* 1664525    = 25 * 65536 + 26125
LcgAdd   == Word(15470, 62303)     \* 1013904223 = 15470 * 65536 + 62303
\* 0.7 * 2^32 = 3006477107.2 = 45875 * 65536 + 13107.2
Below07(v) == v[1] < 45875 \/ (v[1] = 45875 /\ v[2] <= 13107)

\* left-to-right fold of Op over lo..hi with logarithmic nesting depth
RECURSIVE FoldRange(_, _, _, _)
FoldRange(Op(_, _), acc, lo, hi) ==
    IF lo > hi THEN acc
    ELSE IF lo = hi THEN Op(acc, lo)
    ELSE LET mid  == (lo + hi) \div 2
             left == FoldRange(Op, acc, lo, mid)
         IN  \* the test makes the left half a value before the right half starts
             IF {left} # {} THEN FoldRange(Op, left, mid + 1, hi) ELSE acc

(***************************************************************************)
(* Seeded random stream: the closure variable h, and one call of the       *)
(* returned function.                                                      *)
(***************************************************************************)
\* the character fold shared by the three copies of the constructor
FoldChars(seed) ==
    LET step(h, i) == AddInt32(imul(C31, h), seed[i])
    IN  FoldRange(step, Zero32, 1, Len(seed))

\* a stream whose variable h is module-level: it goes on from where the
\* previous call left it
seededRandom_sharedState(seed) ==
    IF pRandH # <<>> THEN pRandH ELSE FoldChars(seed)
\* MapDNA.js seededRandom(seed): initial value of the closure variable h
seededRandom(seed) == FoldChars(seed)
\* NeuralMap.js seededRandom(seed)
Map_seededRandom(seed) == FoldChars(seed)
\* a stream whose variable h is shared by every stream made: a new stream goes
\* on from the latest draw
seededRandomFromHash_sharedState(hash) ==
    IF pRandH # <<>> THEN pRandH ELSE FoldChars(hash)
\* NeuralGalaxy.js seededRandomFromHash(hash)
seededRandomFromHash(hash) == FoldChars(hash)

\* h = (Math.imul(1664525, h) + 1013904223) | 0
LcgStep(h) ==
    LET add(m) == Word((m[1] + LcgAdd[1] + ((m[2] + LcgAdd[2]) \div W16)) % W16,
                       (m[2] + LcgAdd[2]) % W16)
    IN  add(imul(LcgMul, h))

\* return (h >>> 0) / 4294967296: the new state read as an unsigned fraction
rand(h) ==
    LET result(next) == [h |-> next, v |-> next]
    IN  result(LcgStep(h))


(***************************************************************************)
(* Decoded audio.  An AudioBuffer is a record                              *)
(*   [len, dur, mul, off, tweakAt, tweakVal]:                              *)
(* len samples in channel 0, a duration of dur milliseconds, and a sample  *)
(* at (0-based) index i given by Sample.                                   *)
(***************************************************************************)
\* buffer.getChannelData(0)[i], in 1/SampleDen
Sample(b, i) ==
    IF i = b.tweakAt THEN b.tweakVal
    ELSE ((i * b.mul + b.off) % (2 * SampleDen + 1)) - SampleDen

\* TypedArray.prototype.subarray(begin, end): the samples of the view
subarray(b, begin, end) ==
    LET s == Min(Max(begin, 0), b.len)
        e == Min(Max(end, 0), b.len)
    IN  [k \in 1..Max(e - s, 0) |-> Sample(b, s + k - 1)]

\* TypedArray.prototype.slice(begin, end): a copy of the same samples
slice(b, begin, end) ==
    LET s == Min(Max(begin, 0), b.len)
        e == Min(Max(end, 0), b.len)
    IN  [k \in 1..Max(e - s, 0) |-> Sample(b, s + k - 1)]

(***************************************************************************)
(* Content hash                                                            *)
(***************************************************************************)
\* A JS number H * 65536 + L that may lie just outside the int32 range
ToInt32(n)  == Word(n[1] % W16, n[2])
Signed(w)   == <<IF w[1] >= 32768 THEN w[1] - W16 ELSE w[1], w[2]>>
WideAdd(n, k) == LET s == n[2] + k IN <<n[1] + (s \div W16), s % W16>>
\* Math.abs(n) as <<high part, low 16 bits>>
WideAbs(n) ==
    IF n[1] >= 0 THEN n
    ELSE IF n[2] = 0 THEN <<-n[1], 0>>
    ELSE <<-n[1] - 1, W16 - n[2]>>

HexChar(d) == IF d < 10 THEN 48 + d ELSE 87 + d
RECURSIVE HexDigits(_)
HexDigits(n) ==
    IF n < 16 THEN <<HexChar(n)>>
    ELSE Append(HexDigits(n \div 16), HexChar(n % 16))
Hex4(n) == <<HexChar(n \div 4096), HexChar((n \div 256) % 16),
             HexChar((n \div 16) % 16), HexChar(n % 16)>>
\* Number.prototype.toString(16) of a non-negative integer <<hi, lo>>
toString16(m) ==
    IF m[1] = 0 THEN HexDigits(m[2]) ELSE HexDigits(m[1]) \o Hex4(m[2])

\* (data[i] * 100000) | 0
ScaledSample(b, i) == Trunc(Sample(b, i) * HashScale, SampleDen)

\* number of iterations of `for (i = 0; i < data.length; i += 1000)`
HashIters(b) == (b.len + HashStride - 1) \div HashStride

\* NeuralGalaxy.computeAudioHash: the value of `hash` after the loop
Galaxy_hashValue(b) ==
    LET step(hash, k) ==
            WideAdd(Signed(imul(C31, ToInt32(hash))),
                    ScaledSample(b, k * HashStride))
    IN  FoldRange(step, <<0, 0>>, 0, HashIters(b) - 1)

\* a hash computed once per instance: this.songHash is returned when set
Galaxy_computeAudioHash_memo(b) ==
    IF pInstHash # <<>> THEN pInstHash ELSE toString16(WideAbs(Galaxy_hashValue(b)))
Galaxy_computeAudioHash(b) == toString16(WideAbs(Galaxy_hashValue(b)))

\* NeuralMap.computeAudioHash: the value of `hash` after the loop
Map_hashValue(b) ==
    LET step(hash, k) ==
            WideAdd(Signed(imul(C31, ToInt32(hash))),
                    ScaledSample(b, k * HashStride))
    IN  FoldRange(step, <<0, 0>>, 0, HashIters(b) - 1)

Map_computeAudioHash(b) == toString16(WideAbs(Map_hashValue(b)))

(***************************************************************************)
(* Structure generator                                                     *)
(***************************************************************************)
\* Math.max(50, Math.min(200, Math.floor(duration * 10))), duration in ms
nodeCountOf(dur) == Max(MinNodes, Min(MaxNodes, (dur * 10) \div 1000))
\* the count without its upper clamp
Map_nodeCountOf_uncapped(dur) == Max(MinNodes, (dur * 10) \div 1000)
Map_nodeCountOf(dur) == Max(MinNodes, Min(MaxNodes, (dur * 10) \div 1000))

\* Math.max(1, Math.floor(data.length / nodeCount))
stepOf(len, nodeCount) == Max(1, len \div nodeCount)

\* zeroCrossings / data.length, in millionths; 0 / 0 is NaN
Ratio(zc, len) == IF len = 0 THEN NaN ELSE (zc * 1000000) \div len

\* MapDNA.js maxAbs(arr)
maxAbs(arr) ==
    LET step(m, k) == IF Abs(arr[k]) > m THEN Abs(arr[k]) ELSE m
    IN  FoldRange(step, 0, 1, Len(arr))

\* the reduction without Math.abs
Map_maxAbs_signed(arr) ==
    LET step(m, k) == Max(m, arr[k])
    IN  FoldRange(step, 0, 1, Len(arr))
\* NeuralMap.maxAbs(arr)
Map_maxAbs(arr) ==
    LET step(m, k) == Max(m, Abs(arr[k]))
    IN  FoldRange(step, 0, 1, Len(arr))

\* MapDNA.js extractDominantFrequency(data)
extractDominantFrequency(data) ==
    LET step(zc, k) ==
            IF (data[k - 1] >= 0) # (data[k] >= 0) THEN zc + 1 ELSE zc
    IN  Ratio(FoldRange(step, 0, 2, Len(data)), Len(data))

\* NeuralMap.extractDominantFrequency(data)
Map_extractDominantFrequency(data) ==
    LET step(zc, k) ==
            IF (data[k - 1] >= 0) # (data[k] >= 0) THEN zc + 1 ELSE zc
    IN  Ratio(FoldRange(step, 0, 2, Len(data)), Len(data))

\* Coordinates in hundredths.  r is a draw; its high 16 bits carry the
\* resolution kept.  sin(f * 0.1) * 20 and cos(i * 0.001) * 10 are taken to
\* second order, which is exact to the hundredth on f in [0, 1], i < 200.
\* x = (i / nodeCount - 0.5) * 40 + (rand() - 0.5) * 10
PosX(i, nodeCount, r) ==
    ((4000 * i) \div nodeCount) - 2000 + ((1000 * r[1]) \div W16) - 500
\* y = (amp - 0.5) * 80 + Math.sin(freq * 0.1) * 20
PosY(amp, freq) ==
    IF freq = NaN THEN NaN
    ELSE ((8000 * amp) \div SampleDen) - 4000 + ((200 * freq) \div 1000000)
\* z = (rand() - 0.5) * 30 + Math.cos(i * 0.001) * 10
PosZ(i, r) == ((3000 * r[1]) \div W16) - 1500 + 1000 - ((i * i) \div 2000)
\* hue = (i / nodeCount + amp) % 1, in thousandths
HueOf(i, nodeCount, amp) ==
    (((1000 * i) \div nodeCount) + ((1000 * amp) \div SampleDen)) % 1000

\* a.distanceTo(b) < maxDist; a comparison with NaN is false
DistLess(p, q) ==
    IF p.y = NaN \/ q.y = NaN THEN FALSE
    ELSE ((p.x - q.x) * (p.x - q.x)) + ((p.y - q.y) * (p.y - q.y))
           + ((p.z - q.z) * (p.z - q.z)) < (maxDist * 100) * (maxDist * 100)

\* MapDNA.js lines 50-72: the node loop.  acc = [h, nodes]
MapDNA_nodeLoop(b, h0, nodeCount) ==
    LET step == stepOf(b.len, nodeCount)
        body(acc, i) ==
            LET push(amp, freq, r1, r2) ==
                    [h |-> r2.h,
                     nodes |-> Append(acc.nodes,
                        [id |-> i,
                         position |-> [x |-> PosX(i, nodeCount, r1.v),
                                       y |-> PosY(amp, freq),
                                       z |-> PosZ(i, r2.v)],
                         freq |-> freq, amp |-> amp,
                         hue |-> HueOf(i, nodeCount, amp),
                         connections |-> <<>>])]
                \* the two draws, in the order of the source: x, then z
                draw(amp, freq, r1) == push(amp, freq, r1, rand(r1.h))
                node(sl) == draw(maxAbs(sl), extractDominantFrequency(sl),
                                 rand(acc.h))
            IN  node(subarray(b, i * step, Min(b.len, (i + 1) * step)))
    IN  FoldRange(body, [h |-> h0, nodes |-> <<>>], 0, nodeCount - 1)

\* (variant: the draw is taken for every pair, before the distance test)
MapDNA_connLoop_drawFirst(acc0, nodeCount) ==
    LET pos(k) == acc0.nodes[k + 1].position
        outer(acc, i) ==
            LET link(a, j, r) ==
                    IF DistLess(pos(i), pos(j)) /\ Below07(r.v)
                    THEN [h |-> r.h, c |-> Append(a.c, j)]
                    ELSE [h |-> r.h, c |-> a.c]
                f(a, j) == IF i = j THEN a ELSE link(a, j, rand(a.h))
                set(res) ==
                    [h |-> res.h,
                     nodes |-> [acc.nodes EXCEPT ![i + 1].connections = res.c]]
            IN  set(FoldRange(f, [h |-> acc.h, c |-> <<>>], 0, nodeCount - 1))
    IN  FoldRange(outer, acc0, 0, nodeCount - 1)

\* MapDNA.js lines 75-84: the connection loop.  acc = [h, nodes]
MapDNA_connLoop(acc0, nodeCount) ==
    LET pos(k) == acc0.nodes[k + 1].position
        outer(acc, i) ==
            LET link(a, j, r) ==
                    IF Below07(r.v)
                    THEN [h |-> r.h, c |-> Append(a.c, j)]
                    ELSE [h |-> r.h, c |-> a.c]
                f(a, j) ==
                    IF i = j THEN a
                    ELSE IF DistLess(pos(i), pos(j))
                         THEN link(a, j, rand(a.h))
                         ELSE a
                set(res) ==
                    [h |-> res.h,
                     nodes |-> [acc.nodes EXCEPT ![i + 1].connections = res.c]]
            IN  set(FoldRange(f, [h |-> acc.h, c |-> <<>>], 0, nodeCount - 1))
    IN  FoldRange(outer, acc0, 0, nodeCount - 1)

\* MapDNA.js lines 42-86 run from the initial closure state h0 of rand:
\* [h |-> the closure state at return, nodes |-> the returned array]
buildFromStream(b, h0) ==
    LET nodeCount == nodeCountOf(b.dur)
    IN  MapDNA_connLoop(MapDNA_nodeLoop(b, h0, nodeCount), nodeCount)

\* a seed string, or the fallback literal: audioHash || 'seed'
SeedLiteral == <<115, 101, 101, 100>>
OrSeed(audioHash) == IF audioHash = <<>> THEN SeedLiteral ELSE audioHash


(***************************************************************************)
(* NeuralMap: the same derivation, building meshes                         *)
(*   [position, userData: [id, amp, freq, hue, connections, baseY]]        *)
(***************************************************************************)
\* NeuralMap.clearNetwork(): this.nodes = []
Map_clearNetwork(nodes) == <<>>

\* NeuralMap.js lines 203-227: the node loop.  acc = [h, nodes]
Map_nodeLoop(nodes0, b, h0, nodeCount) ==
    LET step == stepOf(b.len, nodeCount)
        body(acc, i) ==
            LET push(amp, freq, r1, r2, y) ==
                    [h |-> r2.h,
                     nodes |-> Append(acc.nodes,
                        [position |-> [x |-> PosX(i, nodeCount, r1.v),
                                       y |-> y,
                                       z |-> PosZ(i, r2.v)],
                         userData |-> [id |-> i, amp |-> amp, freq |-> freq,
                                       hue |-> HueOf(i, nodeCount, amp),
                                       connections |-> <<>>, baseY |-> y]])]
                \* the two draws, in the order of the source: x, then z
                draw(amp, freq, r1) ==
                    push(amp, freq, r1, rand(r1.h), PosY(amp, freq))
                node(sl) == draw(Map_maxAbs(sl), Map_extractDominantFrequency(sl),
                                 rand(acc.h))
            IN  node(slice(b, i * step, (i + 1) * step))
    IN  FoldRange(body, [h |-> h0, nodes |-> nodes0], 0, nodeCount - 1)

\* NeuralMap.js lines 229-240: this.nodes.forEach over this.nodes.forEach
Map_connLoop(acc0) ==
    LET n == Len(acc0.nodes)
        pos(k) == acc0.nodes[k + 1].position
        outer(acc, i) ==
            LET link(a, j, r) ==
                    IF Below07(r.v)
                    THEN [h |-> r.h, c |-> Append(a.c, j)]
                    ELSE [h |-> r.h, c |-> a.c]
                f(a, j) ==
                    IF i = j THEN a
                    ELSE IF DistLess(pos(i), pos(j))
                         THEN link(a, j, rand(a.h))
                         ELSE a
                set(res) ==
                    [h |-> res.h,
                     nodes |-> [acc.nodes EXCEPT
                                  ![i + 1].userData.connections = res.c]]
            IN  set(FoldRange(f,
                      [h |-> acc.h,
                       c |-> acc.nodes[i + 1].userData.connections],
                      0, n - 1))
    IN  FoldRange(outer, acc0, 0, n - 1)

\* NeuralMap.js lines 199-240 run on this.nodes = nodes0 from the initial
\* closure state h0 of rand: [h |-> closure state at return, nodes |-> this.nodes]
Map_buildFromStream(nodes0, b, h0) ==
    Map_connLoop(Map_nodeLoop(nodes0, b, h0, Map_nodeCountOf(b.dur)))

\* NeuralMap.exportNetwork(): the records, each with its own position
Map_exportRecord(n) ==
    [id |-> n.userData.id, position |-> n.position,
     freq |-> n.userData.freq, amp |-> n.userData.amp,
     hue |-> n.userData.hue, connections |-> n.userData.connections]

Map_exportNetwork(nodes) == [k \in 1..Len(nodes) |-> Map_exportRecord(nodes[k])]

(***************************************************************************)
(* Audio files used as inputs.  A decoded buffer is referred to by the     *)
(* index of its file; 0 is the null reference.                             *)
(***************************************************************************)
AudioFiles == <<
    [len |-> 0,    dur |-> 0,     mul |-> 1, off |-> 0, tweakAt |-> -1,   tweakVal |-> 0],
    [len |-> 30,   dur |-> 3000,  mul |-> 2, off |-> 1, tweakAt |-> -1,   tweakVal |-> 0],
    [len |-> 2503, dur |-> 3000,  mul |-> 1, off |-> 0, tweakAt |-> -1,   tweakVal |-> 0],
    [len |-> 2503, dur |-> 3000,  mul |-> 1, off |-> 0, tweakAt |-> 1,    tweakVal |-> 3],
    [len |-> 2503, dur |-> 3000,  mul |-> 1, off |-> 0, tweakAt |-> 1000, tweakVal |-> 3],
    [len |-> 1100, dur |-> 7350,  mul |-> 5, off |-> 2, tweakAt |-> -1,   tweakVal |-> 0],
    [len |-> 40,   dur |-> 4999,  mul |-> 1, off |-> 3, tweakAt |-> -1,   tweakVal |-> 0],
    [len |-> 0,    dur |-> 20000, mul |-> 1, off |-> 0, tweakAt |-> -1,   tweakVal |-> 0],
    [len |-> 660,  dur |-> 20100, mul |-> 2, off |-> 0, tweakAt |-> -1,   tweakVal |-> 0],
    [len |-> 29001, dur |-> 3000, mul |-> 8, off |-> 0, tweakAt |-> 9000, tweakVal |-> 1] >>

NoBuffer == 0
FileIds  == 1..Len(AudioFiles)
Buf(f)   == AudioFiles[f]

NoHash == <<>>
\* '' (so that `|| 'seed'` applies) and '1f'
SeedStrings == { <<>>, <<49, 102>> }

\* the content hash of each file, as both modes compute it
FileHash == [f \in FileIds |-> Galaxy_computeAudioHash(Buf(f))]

\* the (file, seed) pairs the generator is applied to
GenInputs ==
    {[buf |-> f, seed |-> FileHash[f]] : f \in FileIds}
      \cup {[buf |-> f, seed |-> sd] :
              f \in {g \in FileIds : nodeCountOf(Buf(g).dur) <= 100},
              sd \in SeedStrings}

\* Results of the two generators on GenInputs, computed once.  The key is
\* the file and the initial closure state of the stream.
GenKeys == {<<in.buf, FoldChars(OrSeed(in.seed))>> : in \in GenInputs}
MapDNA_results == [key \in GenKeys |-> buildFromStream(Buf(key[1]), key[2])]
Map_results    == [key \in GenKeys |-> Map_buildFromStream(<<>>, Buf(key[1]), key[2])]

\* MapDNA.js buildMapDataFromAudio(audioBuffer, audioHash) on file f:
\* [h |-> closure state of rand at return, nodes |-> the returned array]
buildMapDataFromAudio(f, audioHash) ==
    LET from(results, h0) ==
            IF <<f, h0>> \in DOMAIN results THEN results[<<f, h0>>]
            ELSE buildFromStream(Buf(f), h0)
    IN  from(MapDNA_results, seededRandom(OrSeed(audioHash)))

\* NeuralMap.buildNetFromAudio(buffer) on file f with this.nodes = nodes0 and
\* this.audioHash = audioHash: [h |-> closure state, nodes |-> this.nodes]
Map_buildNetFromAudio(nodes0, f, audioHash) ==
    LET from(results, h0) ==
            IF nodes0 = <<>> /\ <<f, h0>> \in DOMAIN results
            THEN results[<<f, h0>>]
            ELSE Map_buildFromStream(nodes0, Buf(f), h0)
    IN  from(Map_results, Map_seededRandom(OrSeed(audioHash)))

NoStream  == <<>>
\* the audio of the calls made in between
OtherFiles == {6}

PureIdle ==
    /\ pIn = [buf |-> NoBuffer, seed |-> NoHash, other |-> NoBuffer]
    /\ pLog = <<>>
    /\ pBetween = FALSE
    /\ pNodes = <<>>
    /\ pRandH = NoStream
    /\ pInstHash = NoHash
    /\ pStreams = <<>>

(***************************************************************************)
(* The page: transport, audio context, mode instances                      *)
(***************************************************************************)
NoInst == 0

\* new AudioTransport(audioContext, analyser)   (AudioTransport.js lines 11-24)
Transport_constructor ==
    [audioBuffer |-> NoBuffer, source |-> 0, isPlaying |-> FALSE,
     playStartTime |-> 0, pauseOffset |-> 0, duration |-> 0]

\* new AudioContext(): the clock in milliseconds, the context state, and the
\* buffer source node last started: whether it still plays, the clock value
\* at which it reaches the end of its buffer, and the 'ended' events queued;
\* srcBuf is the buffer it was given and srcBase the clock value at which its
\* position in that buffer is 0
AudioContext_constructor ==
    [currentTime |-> 0, state |-> "suspended",
     srcLive |-> FALSE, srcEnd |-> 0, ended |-> 0,
     srcBuf |-> NoBuffer, srcBase |-> 0]

\* const shared = { ..., lastAudioBuffer: null, songHash: null }
Shared_initial == [lastAudioBuffer |-> NoBuffer, songHash |-> NoHash]

\* let lastMapData = null
NullMapData == [isNull |-> TRUE, recs |-> <<>>]

NoStep == [op |-> "none", inst |-> NoInst, genRuns |-> 0, ran |-> FALSE,
           activeAtNew |-> 0, ranReleased |-> FALSE]

\* the page before main.js has run
\* no NeuralGalaxy instance is under study
NoGalaxy == [op |-> "none"]

LabIdle == gal = NoGalaxy

AppIdle ==
    /\ transport = Transport_constructor
    /\ actx = AudioContext_constructor
    /\ shared = Shared_initial
    /\ currentVisualizer = NoInst
    /\ lastMapData = NullMapData
    /\ insts = <<>>
    /\ rafQueue = {}
    /\ tasks = <<>>
    /\ buttons = [play |-> TRUE, pause |-> TRUE]
    /\ loads = 0
    /\ last = NoStep

Record(fn, arg, out) ==
    Append(pLog, [fn |-> fn, arg |-> arg, out |-> out, between |-> pBetween])

(***************************************************************************)
(* Structure generator applied to drawn inputs                             *)
(***************************************************************************)
GenInit ==
    /\ pIn \in {[buf |-> in.buf, seed |-> in.seed, other |-> o] :
                   in \in GenInputs, o \in OtherFiles}
    /\ pLog = <<>>
    /\ pBetween = FALSE
    /\ pNodes = <<>>
    /\ pRandH = NoStream
    /\ pInstHash = NoHash
    /\ pStreams = <<>>
    /\ AppIdle
    /\ LabIdle

\* a caller runs buildMapDataFromAudio(buffer, seed) on the drawn input
CallBuildMapData ==
    /\ Len(pLog) < MaxCalls
    /\ \E r \in {buildMapDataFromAudio(pIn.buf, pIn.seed)} :
           /\ pLog' = Record("buildMapDataFromAudio", pIn.buf, r.nodes)
           /\ pRandH' = r.h
    /\ pBetween' = FALSE
    /\ UNCHANGED <<pIn, pNodes, pInstHash, pStreams, appVars, gal>>

\* the NeuralMap instance, holding the seed as this.audioHash, clears and
\* rebuilds its network from the drawn buffer, then exports it
\* (NeuralMap.js lines 103-104 / 156-157, then exportNetwork)
CallMapBuildAndExport ==
    /\ Len(pLog) < MaxCalls
    /\ \E r \in {Map_buildNetFromAudio(Map_clearNetwork(pNodes), pIn.buf,
                                       pIn.seed)} :
           /\ pNodes' = r.nodes
           /\ pRandH' = r.h
           /\ pLog' = Record("NeuralMap", pIn.buf, Map_exportNetwork(r.nodes))
    /\ pInstHash' = pIn.seed
    /\ pBetween' = FALSE
    /\ UNCHANGED <<pIn, pStreams, appVars, gal>>

\* a call in between, on other audio: NeuralMap.onNewAudio(other)
CallMapOnOther ==
    /\ Len(pLog) < MaxCalls
    /\ \E hsh \in {Map_computeAudioHash(Buf(pIn.other))} :
       \E r \in {Map_buildNetFromAudio(Map_clearNetwork(pNodes), pIn.other, hsh)} :
           /\ pNodes' = r.nodes
           /\ pRandH' = r.h
           /\ pInstHash' = hsh
    /\ pBetween' = TRUE
    /\ UNCHANGED <<pIn, pLog, pStreams, appVars, gal>>

\* a call in between, on other audio: buildMapDataFromAudio(other, hash)
CallBuildOnOther ==
    /\ Len(pLog) < MaxCalls
    /\ LET r == buildMapDataFromAudio(pIn.other, FileHash[pIn.other])
       IN  pRandH' = r.h
    /\ pBetween' = TRUE
    /\ UNCHANGED <<pIn, pLog, pNodes, pInstHash, pStreams, appVars, gal>>

GenNext ==
    \/ CallBuildMapData
    \/ CallMapBuildAndExport
    \/ CallMapOnOther
    \/ CallBuildOnOther

SpecGen == GenInit /\ [][GenNext]_vars

\* the recorded calls of one function
CallsOf(fn) == {k \in DOMAIN pLog : pLog[k].fn = fn}

C2_SameStructure ==
    \A i \in CallsOf("NeuralMap"), j \in CallsOf("buildMapDataFromAudio") :
        pLog[i].out = pLog[j].out

C2_Witness ==
    /\ CallsOf("NeuralMap") # {}
    /\ CallsOf("buildMapDataFromAudio") # {}
    /\ Buf(pIn.buf).len % Len(pLog[1].out) # 0
    /\ Buf(pIn.buf).len > Len(pLog[1].out)
    /\ \E k \in DOMAIN pLog[1].out : pLog[1].out[k].connections # <<>>

Clamp(v, lo, hi) == IF v < lo THEN lo ELSE IF v > hi THEN hi ELSE v

\* C3: the number of nodes generated is clamp(floor(D * 10), 50, 200), so
\* within [50, 200], for both generators.
C3_NodeCount ==
    \A k \in DOMAIN pLog :
        /\ Len(pLog[k].out) = Clamp((Buf(pLog[k].arg).dur * 10) \div 1000, 50, 200)
        /\ Len(pLog[k].out) \in 50..200

C3_Witness ==
    /\ Len(pLog) = 2
    /\ pLog[1].fn # pLog[2].fn
    /\ (Buf(pIn.buf).dur * 10) \div 1000 > 200

(***************************************************************************)
(* Content hash applied to drawn inputs, by either mode                    *)
(***************************************************************************)
HashInit ==
    /\ pIn \in {[buf |-> f, seed |-> NoHash, other |-> g] :
                   f \in FileIds, g \in FileIds}
    /\ pLog = <<>>
    /\ pBetween = FALSE
    /\ pNodes = <<>>
    /\ pRandH = NoStream
    /\ pInstHash = NoHash
    /\ pStreams = <<>>
    /\ AppIdle
    /\ LabIdle

\* NeuralMap: this.audioHash = this.computeAudioHash(buffer)
\* (NeuralMap.js lines 102 and 149)
CallMapHash(f) ==
    /\ Len(pLog) < MaxCalls
    /\ \E out \in {Map_computeAudioHash(Buf(f))} :
           /\ pLog' = Append(pLog, [fn |-> "NeuralMap", arg |-> f, out |-> out,
                                    between |-> pInstHash # NoHash])
           /\ pInstHash' = out
    /\ pBetween' = FALSE
    /\ UNCHANGED <<pIn, pNodes, pRandH, pStreams, appVars, gal>>

\* NeuralGalaxy: this.songHash = this.computeAudioHash(buffer)
\* (NeuralGalaxy.js lines 328 and 844)
CallGalaxyHash(f) ==
    /\ Len(pLog) < MaxCalls
    /\ \E out \in {Galaxy_computeAudioHash(Buf(f))} :
           /\ pLog' = Append(pLog, [fn |-> "NeuralGalaxy", arg |-> f, out |-> out,
                                    between |-> pInstHash # NoHash])
           /\ pInstHash' = out
    /\ pBetween' = FALSE
    /\ UNCHANGED <<pIn, pNodes, pRandH, pStreams, appVars, gal>>

HashNext ==
    \/ \E f \in {pIn.buf, pIn.other} : CallMapHash(f)
    \/ \E f \in {pIn.buf, pIn.other} : CallGalaxyHash(f)

SpecHash == HashInit /\ [][HashNext]_vars

\* the samples the loop reads: those at indices 0, 1000, 2000, ...
StridedSamples(b) == [k \in 1..HashIters(b) |-> Sample(b, (k - 1) * 1000)]

\* C4: calls of computeAudioHash on buffers with the same samples at indices
\* 0, 1000, 2000, ... return the same string, however many calls were made,
\* whatever hash the instance holds and whichever mode computes it; on no
\* samples the string is "0".
C4_HashPure ==
    /\ \A i, j \in DOMAIN pLog :
          StridedSamples(Buf(pLog[i].arg)) = StridedSamples(Buf(pLog[j].arg))
             => pLog[i].out = pLog[j].out
    /\ \A i \in DOMAIN pLog :
          Buf(pLog[i].arg).len = 0 => pLog[i].out = <<48>>

C4_Witness ==
    /\ Len(pLog) = 2
    /\ pLog[1].fn # pLog[2].fn
    /\ pLog[1].arg # pLog[2].arg
    /\ Buf(pLog[1].arg).len > 2000
    /\ StridedSamples(Buf(pLog[1].arg)) = StridedSamples(Buf(pLog[2].arg))
    /\ pLog[2].between
    /\ Len(pLog[2].out) > 1

(***************************************************************************)
(* Two random streams made from one seed, drawn from in any order          *)
(***************************************************************************)
\* 'seed', '0', '1f', '5de9bf8'
RandSeeds == { <<115, 101, 101, 100>>, <<48>>, <<49, 102>>,
               <<53, 100, 101, 57, 98, 102, 56>> }

RandInit ==
    /\ pIn \in {[buf |-> NoBuffer, seed |-> sd, other |-> NoBuffer] :
                   sd \in RandSeeds}
    /\ pLog = <<>>
    /\ pBetween = FALSE
    /\ pNodes = <<>>
    /\ pRandH = NoStream
    /\ pInstHash = NoHash
    /\ pStreams = <<>>
    /\ AppIdle
    /\ LabIdle

NewStream(made, h0) == [made |-> made, h |-> h0, draws |-> <<>>]

\* const rand = seededRandom(seed)   (MapDNA.js line 41)
MakeStreamMapDNA ==
    /\ Len(pStreams) < 2
    /\ pStreams' = Append(pStreams, NewStream("MapDNA", seededRandom(pIn.seed)))
    /\ UNCHANGED <<pIn, pLog, pBetween, pNodes, pRandH, pInstHash, appVars, gal>>

\* const rand = this.seededRandom(seed)   (NeuralMap.js line 198)
MakeStreamMap ==
    /\ Len(pStreams) < 2
    /\ pStreams' = Append(pStreams, NewStream("NeuralMap", Map_seededRandom(pIn.seed)))
    /\ UNCHANGED <<pIn, pLog, pBetween, pNodes, pRandH, pInstHash, appVars, gal>>

\* const rng = this.seededRandomFromHash(seed)   (NeuralGalaxy.js line 507)
MakeStreamGalaxy ==
    /\ Len(pStreams) < 2
    /\ pStreams' = Append(pStreams,
                          NewStream("NeuralGalaxy", seededRandomFromHash(pIn.seed)))
    /\ UNCHANGED <<pIn, pLog, pBetween, pNodes, pRandH, pInstHash, appVars, gal>>

\* one call of the function a constructor returned
Draw(k) ==
    /\ Len(pStreams[k].draws) < MaxDraws
    /\ \E r \in {rand(pStreams[k].h)} :
           /\ pStreams' = [pStreams EXCEPT ![k].h = r.h,
                                           ![k].draws = Append(@, r.v)]
           /\ pRandH' = r.h
    /\ UNCHANGED <<pIn, pLog, pBetween, pNodes, pInstHash, appVars, gal>>

RandNext ==
    \/ MakeStreamMapDNA
    \/ MakeStreamMap
    \/ MakeStreamGalaxy
    \/ \E k \in DOMAIN pStreams : Draw(k)

SpecRand == RandInit /\ [][RandNext]_vars

\* C5: two streams made from the same seed string agree on every draw both
\* have taken, in whatever order the draws of the two streams are made.
C5_SameDraws ==
    \A a, b \in DOMAIN pStreams :
        \A n \in 1..Min(Len(pStreams[a].draws), Len(pStreams[b].draws)) :
            pStreams[a].draws[n] = pStreams[b].draws[n]

C5_Witness ==
    /\ Len(pStreams) = 2
    /\ pStreams[1].made # pStreams[2].made
    /\ Len(pStreams[1].draws) = MaxDraws
    /\ Len(pStreams[2].draws) = MaxDraws
    /\ pRandH = pStreams[1].h
    /\ pStreams[1].draws[1] # pStreams[1].draws[2]

(***************************************************************************)
(* The page as one value, so that a handler is the composition of the      *)
(* calls it makes.  obs records what the handler did.                      *)
(***************************************************************************)
World ==
    [transport |-> transport, actx |-> actx, shared |-> shared,
     cur |-> currentVisualizer, lastMapData |-> lastMapData, insts |-> insts,
     raf |-> rafQueue, buttons |-> buttons, obs |-> NoStep]

\* the page before main.js has run
World0 ==
    [transport |-> Transport_constructor, actx |-> AudioContext_constructor,
     shared |-> Shared_initial, cur |-> NoInst, lastMapData |-> NullMapData,
     insts |-> <<>>, raf |-> {}, buttons |-> [play |-> TRUE, pause |-> TRUE],
     obs |-> NoStep]

(***************************************************************************)
(* AudioTransport                                                          *)
(***************************************************************************)
\* try { this.source.stop(0) } catch {}; try { this.source.disconnect() } catch {}
\* a node that was still playing queues its 'ended' event
StopSource(w) ==
    [w EXCEPT !.actx.srcLive = FALSE,
              !.actx.ended = IF w.actx.srcLive THEN @ + 1 ELSE @]

\* AudioTransport.pause()
Transport_pause(w) ==
    LET t   == w.transport
        off == IF t.isPlaying
               THEN Max(0, w.actx.currentTime - t.playStartTime)
               ELSE t.pauseOffset
        w1  == IF t.source # 0 THEN StopSource(w) ELSE w
    IN  [w1 EXCEPT !.transport.pauseOffset = off,
                   !.transport.source = 0,
                   !.transport.isPlaying = FALSE]

\* AudioTransport.reset()
Transport_reset(w) ==
    [Transport_pause(w) EXCEPT !.transport.pauseOffset = 0,
                               !.transport.playStartTime = 0]

\* AudioTransport.play(), line 39: the early return
Transport_playReturns(w) ==
    w.transport.audioBuffer = NoBuffer \/ w.transport.isPlaying

\* AudioTransport.play(), line 41: the await of audioContext.resume()
Transport_playAwaits(w) == w.actx.state = "suspended"

\* AudioTransport.play(), lines 45-69, in milliseconds
Transport_playRest(w) ==
    LET w1  == IF w.transport.source # 0
               THEN [StopSource(w) EXCEPT !.transport.source = 0]
               ELSE w
        t   == w1.transport
        d   == IF t.duration # 0 THEN t.duration ELSE Buf(t.audioBuffer).dur
        off == Min(Max(0, t.pauseOffset), Max(0, d - 10))
        now == w1.actx.currentTime
    IN  [w1 EXCEPT !.transport.pauseOffset = off,
                   !.transport.source = 1,
                   !.transport.playStartTime = now - off,
                   !.transport.isPlaying = TRUE,
                   !.actx.srcLive = TRUE,
                   !.actx.srcBuf = t.audioBuffer,
                   !.actx.srcBase = now - off,
                   !.actx.srcEnd = now + Max(0, Buf(t.audioBuffer).dur - off)]

\* main.js setTransportButtonsState(isPlaying)
setTransportButtonsState(w, isPlaying) ==
    LET none == w.transport.audioBuffer = NoBuffer
    IN  [w EXCEPT !.buttons = [play  |-> isPlaying \/ none,
                               pause |-> (~isPlaying) \/ none]]

\* this.source.onended   (AudioTransport.js lines 64-69, main.js 166-168)
Transport_onended(w) ==
    setTransportButtonsState(
        [w EXCEPT !.transport.isPlaying = FALSE,
                  !.transport.pauseOffset = 0,
                  !.transport.playStartTime = 0],
        FALSE)

\* AudioTransport.loadFile(file), lines 33-35, once the file is decoded as f
Transport_loadFileDone(w, f) ==
    [w EXCEPT !.transport.audioBuffer = f,
              !.transport.duration = Buf(f).dur,
              !.transport.pauseOffset = 0,
              !.transport.playStartTime = 0]


(***************************************************************************)
(* Mode instances.  An instance is a record                                *)
(*   [kind, isActive, rafId, audioBuffer, hash, nodes, mapData, stars,     *)
(*    released, epoch, playStartTime, pauseOffset, duration].              *)
(* A connections array is [blk, items]: blk names the array itself (the    *)
(* instance and build that created it), items is what it holds.            *)
(***************************************************************************)
\* the arrays created by a build: the nodes after the first `kept` get arrays
\* of their own
OwnMeshArrays(nodes, old, blk) ==
    [k \in 1..Len(nodes) |->
        [nodes[k] EXCEPT !.userData.connections =
            [blk   |-> IF k <= Len(old) THEN old[k].userData.connections.blk
                       ELSE blk,
             items |-> @]]]
MeshValues(nodes) ==
    [k \in 1..Len(nodes) |->
        [nodes[k] EXCEPT !.userData.connections = @.items]]
OwnRecordArrays(recs, blk) ==
    [k \in 1..Len(recs) |->
        [recs[k] EXCEPT !.connections = [blk |-> blk, items |-> @]]]
\* the records with each connections array replaced by what it holds
RecordValues(recs) ==
    [k \in 1..Len(recs) |-> [recs[k] EXCEPT !.connections = @.items]]

\* the instances whose frame callback can still run an update
ActiveInsts(w) ==
    {k \in DOMAIN w.insts : w.insts[k].isActive /\ k \in w.raf}

\* playBtn.disabled = false; pauseBtn.disabled = true
ReadyToPlay(w) == [w EXCEPT !.buttons = [play |-> FALSE, pause |-> TRUE]]

\* the body of a frame: controls.update(); update(); render()
FrameBody(w, i) ==
    [w EXCEPT !.obs.ran = TRUE,
              !.obs.ranReleased = @ \/ w.insts[i].released]

\* NeuralMap.animate()   (NeuralMap.js lines 313-319)
Map_animate(w, i) ==
    IF ~w.insts[i].isActive THEN w
    ELSE FrameBody([w EXCEPT !.raf = @ \cup {i}, !.insts[i].rafId = i], i)

\* NeuralMap.clearNetwork() on instance i
Map_clear(w, i) ==
    [w EXCEPT !.insts[i].nodes = Map_clearNetwork(@)]

\* NeuralMap.buildNetFromAudio(buffer) on instance i, buffer f
Map_build(w, i, f) ==
    LET me  == w.insts[i]
        e   == me.epoch + 1
        res == Map_buildNetFromAudio(MeshValues(me.nodes), f, me.hash)
    IN  [w EXCEPT !.insts[i].nodes = OwnMeshArrays(res.nodes, me.nodes, <<i, e>>),
                  !.insts[i].epoch = e,
                  !.obs.genRuns = @ + 1]

\* this.clearNetwork(); this.buildNetFromAudio(buffer); then the two buttons
Map_rebuild(w, i, f) == ReadyToPlay(Map_build(Map_clear(w, i), i, f))

\* NeuralMap.init(): lines 97-112
Map_init(w, i) ==
    IF w.insts[i].audioBuffer # NoBuffer
    THEN Map_animate(
             Map_rebuild(
                 [w EXCEPT !.insts[i].hash =
                      Map_computeAudioHash(Buf(w.insts[i].audioBuffer))],
                 i, w.insts[i].audioBuffer),
             i)
    ELSE Map_animate(w, i)

\* new NeuralMap(shared): the second argument of the call is not received
Map_constructor(w) ==
    LET i == Len(w.insts) + 1
        me == [kind |-> "neuralMap", isActive |-> TRUE, rafId |-> 0,
               audioBuffer |-> w.shared.lastAudioBuffer, hash |-> NoHash,
               nodes |-> <<>>, mapData |-> NullMapData, stars |-> 0,
               released |-> FALSE, epoch |-> 0,
               playStartTime |-> 0, pauseOffset |-> 0, duration |-> 0]
    IN  Map_init([w EXCEPT !.insts = Append(@, me),
                           !.obs.activeAtNew = Cardinality(ActiveInsts(w))], i)

\* (variant: the hash is kept by the instance only)
Map_setHash_local(w, i, hsh) ==
    [w EXCEPT !.insts[i].hash = hsh]

\* this.audioHash = hsh; this.shared.songHash = this.audioHash
Map_setHash(w, i, hsh) ==
    [w EXCEPT !.insts[i].hash = hsh, !.shared.songHash = hsh]

\* NeuralMap.onNewAudio(audioBuffer)
Map_onNewAudio(w, i, f) ==
    Map_rebuild(
        Map_setHash([w EXCEPT !.insts[i].audioBuffer = f,
                              !.shared.lastAudioBuffer = f],
                    i, Map_computeAudioHash(Buf(f))),
        i, f)

\* NeuralMap.exportNetwork() of instance i
Map_export(w, i) ==
    [isNull |-> FALSE, recs |-> Map_exportNetwork(w.insts[i].nodes)]

\* a dispose that releases the scene while the frame callback stays requested
Map_dispose_noCancel(w, i) ==
    [w EXCEPT !.insts[i].released = TRUE]
\* NeuralMap.dispose()
Map_dispose(w, i) ==
    [w EXCEPT !.insts[i].isActive = FALSE,
              !.raf = IF w.insts[i].rafId # 0 THEN @ \ {w.insts[i].rafId} ELSE @,
              !.insts[i].released = TRUE]


\* NeuralGalaxy.animate()   (NeuralGalaxy.js lines 1159-1171)
Galaxy_animate(w, i) ==
    IF ~w.insts[i].isActive THEN w
    ELSE FrameBody([w EXCEPT !.raf = @ \cup {i}, !.insts[i].rafId = i], i)

\* this.mapData = buildMapDataFromAudio(buffer, this.songHash)
Galaxy_buildMapData(w, i, f) ==
    LET me  == w.insts[i]
        e   == me.epoch + 1
        res == buildMapDataFromAudio(f, me.hash)
    IN  [w EXCEPT !.insts[i].mapData =
                      [isNull |-> FALSE,
                       recs   |-> OwnRecordArrays(res.nodes, <<i, e>>)],
                  !.insts[i].epoch = e,
                  !.obs.genRuns = @ + 1]

\* (variant: N = Math.min(4000, data.length * 10), without the floor of 900)
Galaxy_pointCount_noFloor(len) == Min(StarsMax, len * 10)

\* const N = Math.min(4000, Math.max(900, data.length * 10))
Galaxy_pointCount(len) == Min(StarsMax, Max(StarsMin, len * 10))

\* NeuralGalaxy.createGalaxyFromNeuralMap(this.mapData): the number of stars
\* committed, by either branch (from the records, or the neutral spiral)
Galaxy_createGalaxy(w, i) ==
    LET data == w.insts[i].mapData.recs
    IN  [w EXCEPT !.insts[i].stars = Galaxy_pointCount(Len(data))]

\* this.songHash = hsh; this.shared.songHash = this.songHash
Galaxy_setHash(w, i, hsh) ==
    [w EXCEPT !.insts[i].hash = hsh, !.shared.songHash = hsh]

\* this.mapData = buildMapDataFromAudio(...); this.createGalaxyFromNeuralMap(
\* this.mapData); then the two buttons
Galaxy_rebuild(w, i, f) ==
    ReadyToPlay(Galaxy_createGalaxy(Galaxy_buildMapData(w, i, f), i))

\* NeuralGalaxy.init(), lines 327-330
Galaxy_initHash(w, i, f) ==
    IF f # NoBuffer /\ w.insts[i].hash = NoHash
    THEN Galaxy_setHash(w, i, Galaxy_computeAudioHash(Buf(f)))
    ELSE w

\* a build that keeps the structure the constructor was handed
Galaxy_initBuild_reuse(w, i, f) ==
    IF f = NoBuffer THEN w
    ELSE IF w.insts[i].mapData.isNull THEN Galaxy_rebuild(w, i, f)
    ELSE ReadyToPlay(Galaxy_createGalaxy(w, i))
\* NeuralGalaxy.init(), lines 333-341
Galaxy_initBuild(w, i, f) ==
    IF f # NoBuffer THEN Galaxy_rebuild(w, i, f) ELSE w

\* NeuralGalaxy.init(): lines 327-343
Galaxy_init(w, i) ==
    Galaxy_animate(
        Galaxy_initBuild(Galaxy_initHash(w, i, w.insts[i].audioBuffer),
                         i, w.insts[i].audioBuffer),
        i)

\* new NeuralGalaxy(shared, neuralMapData)
Galaxy_constructor(w, neuralMapData) ==
    LET i == Len(w.insts) + 1
        me == [kind |-> "neuralGalaxy", isActive |-> TRUE, rafId |-> 0,
               audioBuffer |-> w.shared.lastAudioBuffer,
               hash |-> w.shared.songHash,
               nodes |-> <<>>, mapData |-> neuralMapData, stars |-> 0,
               released |-> FALSE, epoch |-> 0,
               playStartTime |-> 0, pauseOffset |-> 0, duration |-> 0]
    IN  Galaxy_init([w EXCEPT !.insts = Append(@, me),
                              !.obs.activeAtNew = Cardinality(ActiveInsts(w))], i)

\* a reset of the time state of the transport, not of the instance
Galaxy_resetTime_transport(w, i, f) ==
    [w EXCEPT !.insts[i].audioBuffer = f,
              !.transport.pauseOffset = 0,
              !.transport.playStartTime = 0,
              !.transport.duration = Buf(f).dur]
\* NeuralGalaxy.onNewAudio, lines 836-842: the instance's own time state
Galaxy_resetTime(w, i, f) ==
    [w EXCEPT !.insts[i].audioBuffer = f,
              !.insts[i].pauseOffset = 0,
              !.insts[i].playStartTime = 0,
              !.insts[i].duration = Buf(f).dur]

\* NeuralGalaxy.onNewAudio(buffer): the definition at lines 833-863, which
\* replaces the one at lines 374-398
Galaxy_onNewAudio(w, i, f) ==
    IF f = NoBuffer THEN w
    ELSE Galaxy_rebuild(
             Galaxy_setHash(Galaxy_resetTime(w, i, f), i,
                            Galaxy_computeAudioHash(Buf(f))),
             i, f)

\* NeuralGalaxy.dispose(): clearStars() releases the geometry
Galaxy_dispose(w, i) ==
    [w EXCEPT !.insts[i].isActive = FALSE,
              !.raf = IF w.insts[i].rafId # 0 THEN @ \ {w.insts[i].rafId} ELSE @,
              !.insts[i].stars = 0,
              !.insts[i].released = TRUE]

(***************************************************************************)
(* main.js                                                                 *)
(***************************************************************************)
\* currentVisualizer.onNewAudio(buffer)
OnNewAudio(w, i, f) ==
    IF w.insts[i].kind = "neuralMap" THEN Map_onNewAudio(w, i, f)
    ELSE Galaxy_onNewAudio(w, i, f)

\* currentVisualizer.dispose()
Dispose(w, i) ==
    IF w.insts[i].kind = "neuralMap" THEN Map_dispose(w, i)
    ELSE Galaxy_dispose(w, i)

\* currentVisualizer.exportNetwork(), which only NeuralMap has
SaveMapData(w) ==
    IF w.insts[w.cur].kind = "neuralMap"
    THEN [w EXCEPT !.lastMapData = Map_export(w, w.cur)]
    ELSE w

\* a switch that drops the current instance without disposing of it
TearDown_noDispose(w) ==
    IF w.cur = NoInst THEN w
    ELSE [SaveMapData(w) EXCEPT !.cur = NoInst]
\* loadVisualizer, lines 249-261
TearDown(w) ==
    IF w.cur = NoInst THEN w
    ELSE [Dispose(SaveMapData(w), w.cur) EXCEPT !.cur = NoInst]

\* currentVisualizer = new VisualizerClass(shared, lastMapData)
Construct(w, modeName) ==
    IF modeName = "neuralMap" THEN Map_constructor(w)
    ELSE Galaxy_constructor(w, w.lastMapData)
SetCurrent(w) == [w EXCEPT !.cur = Len(w.insts)]

\* if (shared.lastAudioBuffer && ...) currentVisualizer.onNewAudio(...)
Hydrate(w) ==
    IF w.shared.lastAudioBuffer # NoBuffer
    THEN OnNewAudio(w, w.cur, w.shared.lastAudioBuffer)
    ELSE w

\* wireTransportButtons(): setTransportButtonsState(shared.transport.isPlaying)
wireTransportButtons(w) == setTransportButtonsState(w, w.transport.isPlaying)

\* loadVisualizer(modeName), lines 247-282: the hydration block is there twice
loadVisualizer(w, modeName) ==
    wireTransportButtons(
        Hydrate(Hydrate(SetCurrent(Construct(TearDown(w), modeName)))))

\* main.js run to its end: loadVisualizer('neuralMap'); wireFileInput();
\* wireTransportButtons()
Boot == wireTransportButtons(loadVisualizer(World0, "neuralMap"))

(***************************************************************************)
(* The page's handlers as steps                                            *)
(***************************************************************************)
\* the files the user can choose: 3 s and 4.999 s of audio (50 nodes each)
AppFiles == {2, 7}
Modes    == {"neuralMap", "neuralGalaxy"}
TickMs   == 1000

\* the step leaves the page as w; op and inst say which handler ran
Apply(w, op, inst) ==
    /\ transport' = w.transport
    /\ actx' = w.actx
    /\ shared' = w.shared
    /\ currentVisualizer' = w.cur
    /\ lastMapData' = w.lastMapData
    /\ insts' = w.insts
    /\ rafQueue' = w.raf
    /\ buttons' = w.buttons
    /\ last' = [w.obs EXCEPT !.op = op, !.inst = inst]
    /\ UNCHANGED <<pureVars, gal>>

Init ==
    /\ PureIdle
    /\ LabIdle
    /\ \E w \in {Boot} :
           /\ transport = w.transport
           /\ actx = w.actx
           /\ shared = w.shared
           /\ currentVisualizer = w.cur
           /\ lastMapData = w.lastMapData
           /\ insts = w.insts
           /\ rafQueue = w.raf
           /\ buttons = w.buttons
           /\ last = [w.obs EXCEPT !.op = "boot", !.inst = w.cur]
    /\ tasks = <<>>
    /\ loads = 0

\* a step that stops a playing source queues an 'ended' event
CanStop == (~actx.srcLive) \/ actx.ended < MaxEnded

RemoveAt(q, k) == [j \in 1..(Len(q) - 1) |-> IF j < k THEN q[j] ELSE q[j + 1]]

\* modeSelect 'change': loadVisualizer(e.target.value)
ModeChange(modeName) ==
    /\ Len(insts) < MaxInst
    /\ currentVisualizer # NoInst
    /\ insts[currentVisualizer].kind # modeName
    /\ Apply(loadVisualizer(World, modeName), "loadVisualizer", Len(insts) + 1)
    /\ UNCHANGED <<tasks, loads>>

\* audioInput.onchange up to the awaits of loadFile (lines 218-223, 26-31)
FileChange(f) ==
    /\ loads < MaxLoads
    /\ Len(tasks) < MaxTasks
    /\ CanStop
    /\ tasks' = Append(tasks, [kind |-> "decode", file |-> f,
                               wasPlaying |-> transport.isPlaying])
    /\ loads' = loads + 1
    /\ Apply(Transport_pause(World), "fileChange", currentVisualizer)

\* the rest of a handler after `await shared.transport.play()`
AfterPlay(w) == setTransportButtonsState(w, TRUE)

\* loadFile lines 31-35, then onchange lines 226-234
Loaded(w, f) ==
    setTransportButtonsState(
        IF w.cur # NoInst
        THEN OnNewAudio(
                 [Transport_loadFileDone(w, f) EXCEPT !.shared.lastAudioBuffer = f],
                 w.cur, f)
        ELSE [Transport_loadFileDone(w, f) EXCEPT !.shared.lastAudioBuffer = f],
        FALSE)

\* onchange lines 236-239 on the page w: play() returns, awaits or runs
Replay(k, w) ==
    IF ~tasks[k].wasPlaying
    THEN /\ tasks' = RemoveAt(tasks, k)
         /\ Apply(w, "decodeDone", w.cur)
    ELSE IF Transport_playReturns(w)
    THEN /\ tasks' = RemoveAt(tasks, k)
         /\ Apply(AfterPlay(w), "decodeDone", w.cur)
    ELSE IF Transport_playAwaits(w)
    THEN /\ tasks' = [tasks EXCEPT ![k].kind = "resume"]
         /\ Apply(w, "decodeDone", w.cur)
    ELSE /\ tasks' = RemoveAt(tasks, k)
         /\ Apply(AfterPlay(Transport_playRest(w)), "decodeDone", w.cur)

\* decodeAudioData resolved
DecodeDone(k) ==
    /\ tasks[k].kind = "decode"
    /\ CanStop
    /\ Replay(k, Loaded(World, tasks[k].file))
    /\ UNCHANGED loads

\* (variant: the failed load clears the buffer it was to replace)
Transport_loadFileFails_cleared(w) ==
    [w EXCEPT !.transport.audioBuffer = NoBuffer, !.transport.duration = 0]

\* AudioTransport.loadFile(file), lines 30-31: the await throws before any
\* assignment, so no field is written
Transport_loadFileFails(w) == w

\* decodeAudioData (or file.arrayBuffer) rejected: loadFile throws at its
\* await and the handler ends there
DecodeFail(k) ==
    /\ tasks[k].kind = "decode"
    /\ tasks' = RemoveAt(tasks, k)
    /\ Apply(Transport_loadFileFails(World), "decodeFail", currentVisualizer)
    /\ UNCHANGED loads

\* playBtn.onclick
PlayClick ==
    /\ ~buttons.play
    /\ CanStop
    /\ IF Transport_playReturns(World)
       THEN /\ Apply(AfterPlay(World), "play", currentVisualizer)
            /\ UNCHANGED tasks
       ELSE IF Transport_playAwaits(World)
       THEN /\ Len(tasks) < MaxTasks
            /\ tasks' = Append(tasks, [kind |-> "resume", file |-> NoBuffer,
                                       wasPlaying |-> FALSE])
            /\ Apply(World, "play", currentVisualizer)
       ELSE /\ Apply(AfterPlay(Transport_playRest(World)), "play", currentVisualizer)
            /\ UNCHANGED tasks
    /\ UNCHANGED loads

\* audioContext.resume() resolved: play() goes on from line 45
ResumeDone(k) ==
    /\ tasks[k].kind = "resume"
    /\ CanStop
    /\ tasks' = RemoveAt(tasks, k)
    /\ Apply(AfterPlay(Transport_playRest([World EXCEPT !.actx.state = "running"])),
             "resumeDone", currentVisualizer)
    /\ UNCHANGED loads

\* audioContext.resume() rejected: caught at line 42, play() goes on
ResumeFail(k) ==
    /\ tasks[k].kind = "resume"
    /\ CanStop
    /\ tasks' = RemoveAt(tasks, k)
    /\ Apply(AfterPlay(Transport_playRest(World)), "resumeFail", currentVisualizer)
    /\ UNCHANGED loads

\* pauseBtn.onclick
PauseClick ==
    /\ ~buttons.pause
    /\ CanStop
    /\ Apply(setTransportButtonsState(Transport_pause(World), FALSE),
             "pause", currentVisualizer)
    /\ UNCHANGED <<tasks, loads>>

\* resetBtn.onclick: neither mode defines onTransportReset
ResetClick ==
    /\ CanStop
    /\ Apply(setTransportButtonsState(Transport_reset(World), FALSE),
             "reset", currentVisualizer)
    /\ UNCHANGED <<tasks, loads>>

\* the audio clock advances while the context runs
Tick ==
    /\ actx.state = "running"
    /\ actx.currentTime < MaxTime * TickMs
    /\ Apply([World EXCEPT !.actx.currentTime = @ + TickMs], "tick", NoInst)
    /\ UNCHANGED <<tasks, loads>>

\* the playing source reaches the end of its buffer
SourceEnds ==
    /\ actx.srcLive
    /\ actx.state = "running"
    /\ actx.currentTime >= actx.srcEnd
    /\ actx.ended < MaxEnded
    /\ Apply(StopSource(World), "sourceEnds", NoInst)
    /\ UNCHANGED <<tasks, loads>>

\* an 'ended' event is dispatched to source.onended
FireEnded ==
    /\ actx.ended > 0
    /\ Apply(Transport_onended([World EXCEPT !.actx.ended = @ - 1]), "ended", NoInst)
    /\ UNCHANGED <<tasks, loads>>

\* the browser runs the frame callback requested by instance i
Frame(i) ==
    /\ i \in rafQueue
    /\ LET w == [World EXCEPT !.raf = @ \ {i}]
       IN  Apply(IF insts[i].kind = "neuralMap" THEN Map_animate(w, i)
                 ELSE Galaxy_animate(w, i), "frame", i)
    /\ UNCHANGED <<tasks, loads>>

\* dispose() is called again on an instance already disposed of
DisposeAgain(i) ==
    /\ i # currentVisualizer
    /\ insts[i].released
    /\ Apply(Dispose(World, i), "disposeAgain", i)
    /\ UNCHANGED <<tasks, loads>>

Next ==
    \/ \E modeName \in Modes : ModeChange(modeName)
    \/ \E f \in AppFiles : FileChange(f)
    \/ \E k \in DOMAIN tasks : DecodeDone(k)
    \/ \E k \in DOMAIN tasks : DecodeFail(k)
    \/ PlayClick
    \/ \E k \in DOMAIN tasks : ResumeDone(k)
    \/ \E k \in DOMAIN tasks : ResumeFail(k)
    \/ PauseClick
    \/ ResetClick
    \/ Tick
    \/ SourceEnds
    \/ FireEnded
    \/ \E i \in DOMAIN insts : Frame(i)
    \/ \E i \in DOMAIN insts : DisposeAgain(i)

Spec == Init /\ [][Next]_vars

(***************************************************************************)
(* Properties of the page                                                  *)
(***************************************************************************)
\* the step just taken was loadVisualizer with audio already loaded
SwitchedWithAudio ==
    last.op = "loadVisualizer" /\ shared.lastAudioBuffer # NoBuffer

\* C6: a loadVisualizer step (export, dispose of the old mode, construction
\* and hydration of the new mode) leaves the transport's isPlaying, source,
\* pauseOffset, playStartTime, duration and audioBuffer as they were, and
\* the playing source node goes on playing.
C6_SwitchKeepsTransport ==
    [][last'.op = "loadVisualizer" =>
          /\ transport' = transport
          /\ actx' = actx]_vars

C6_Witness ==
    /\ SwitchedWithAudio
    /\ insts[currentVisualizer].kind = "neuralGalaxy"
    /\ transport.isPlaying
    /\ actx.srcLive
    /\ transport.playStartTime > 0
    /\ transport.duration > 0
    /\ insts[currentVisualizer].playStartTime = 0

\* C7: at most one mode instance is active (isActive with a frame callback
\* still requested), it is the current one, and no instance was active at the
\* moment the latest instance was constructed.
C7_OneActiveInstance ==
    /\ ActiveInsts(World) \subseteq {currentVisualizer}
    /\ \A k \in DOMAIN insts :
           k # currentVisualizer => ~insts[k].isActive /\ insts[k].released
    /\ last.activeAtNew = 0

C7_Witness ==
    /\ Len(insts) = MaxInst
    /\ last.op = "loadVisualizer"
    /\ loads > 0
    /\ shared.lastAudioBuffer # NoBuffer
    /\ ActiveInsts(World) = {currentVisualizer}
    /\ \E k \in DOMAIN insts : insts[k].kind # insts[currentVisualizer].kind

\* C8: once an instance of either mode is disposed of, no frame callback runs
\* an update on it, and a second dispose() leaves the page as the first left
\* it.
C8_DisposeIdempotent ==
    [][/\ ~last'.ranReleased
       /\ last'.op = "disposeAgain" =>
              <<transport, actx, shared, currentVisualizer, lastMapData, insts,
                rafQueue, buttons, tasks>>'
              = <<transport, actx, shared, currentVisualizer, lastMapData, insts,
                  rafQueue, buttons, tasks>>]_vars

C8_Witness ==
    /\ last.op = "disposeAgain"
    /\ insts[last.inst].released
    /\ \E i, j \in DOMAIN insts :
           /\ insts[i].kind = "neuralMap" /\ insts[i].released
           /\ insts[j].kind = "neuralGalaxy" /\ insts[j].released
           /\ insts[i].nodes # <<>>

\* the structure an instance holds, as plain records
StructureOf(i) ==
    IF insts[i].kind = "neuralMap"
    THEN Map_exportNetwork(MeshValues(insts[i].nodes))
    ELSE RecordValues(insts[i].mapData.recs)

\* what the generator of MapDNA.js returns on each file and its content hash
Generated ==
    [f \in AppFiles |-> buildFromStream(Buf(f), FoldChars(FileHash[f])).nodes]

NodeArrays ==
    UNION {{insts[i].nodes[n].userData.connections.blk :
               n \in DOMAIN insts[i].nodes} : i \in DOMAIN insts}

\* C10: the records exportNetwork returned share no array with the nodes of
\* the exporting mode, so that a change made through one cannot be seen
\* through the other.
C10_ExportedByValue ==
    \A k \in DOMAIN lastMapData.recs :
        lastMapData.recs[k].connections.blk \notin NodeArrays

(***************************************************************************)
(* Properties of the generated structure on short and empty sample data    *)
(***************************************************************************)
\* C11: every node a generator call returned has a defined frequency ratio
\* and defined position components (no 0 / 0), on any sample sequence,
\* an empty one and one shorter than the node count included.
C11_DefinedNumbers ==
    \A k \in DOMAIN pLog : \A n \in DOMAIN pLog[k].out :
        /\ pLog[k].out[n].freq # NaN
        /\ pLog[k].out[n].position.y # NaN

(***************************************************************************)
(* NeuralGalaxy: the point structure.  Of a structure the model keeps the  *)
(* point count, the shape tier of every point as the build wrote it        *)
(* (baseShapeTiers), which branch built it, and the number of the build.   *)
(* Point positions, colours and sizes are not modelled.                    *)
(***************************************************************************)
MaxBuilds == 3

\* this.stars = null
NoStars == [count |-> 0]

\* const fNorm = clamp(n.freq * 8, 0, 1);
\* shapeTiers[i] = fNorm < 0.33 ? 0.0 : fNorm < 0.66 ? 1.0 : 2.0
\* (freq in millionths; both comparisons are false on NaN)
ShapeTierOf(freq) ==
    LET tier(fNorm) == IF fNorm < 330000 THEN 0 ELSE IF fNorm < 660000 THEN 1 ELSE 2
    IN  IF freq = NaN THEN 2 ELSE tier(Min(1000000, Max(0, freq * 8)))

\* createNeutralSpiral(N): N points, shapeTiers[i] = 1.0 for each of them
createNeutralSpiral(N) ==
    [count |-> N, baseShapeTiers |-> [k \in 1..N |-> 1], neutral |-> TRUE]

\* createGalaxyFromNeuralMap(data): point i takes its tier from the record
\* data[i % data.length]; an empty list gives the neutral spiral
createGalaxyFromNeuralMap(data) ==
    LET build(N) ==
            IF Len(data) = 0 THEN createNeutralSpiral(N)
            ELSE [count |-> N,
                  baseShapeTiers |->
                      [k \in 1..N |-> ShapeTierOf(data[((k - 1) % Len(data)) + 1].freq)],
                  neutral |-> FALSE]
    IN  build(Galaxy_pointCount(Len(data)))

\* the record lists the structure is built from: the empty list and the
\* generator's output for four files (50, 50, 73 and 200 records)
StarFiles == {2, 6, 7, 9}
StarData ==
    {<<>>} \cup {MapDNA_results[<<f, FoldChars(FileHash[f])>>].nodes : f \in StarFiles}

\* this._phiCache = null; this._rCache = null (constructor).  Of a cache the
\* model keeps its length and the build whose smoothed values it holds
\* (0: the zeros of a new Float32Array)
NoCache == [len |-> -1, holds |-> 0]

\* if (!this._phiCache || this._phiCache.length !== count)
\*     this._phiCache = new Float32Array(count)
EnsureCache(cache, count, build) ==
    IF cache = NoCache \/ cache.len # count
    THEN [len |-> count, holds |-> 0]
    ELSE cache

\* The typed arrays of an instance, by the name of the variable or field that
\* was given the new array; heap[name] tells who wrote the array last: nobody
\* ("none"), the build ("built") or a frame of updateStars ("frame")
ArrayNames ==
    {"positions", "colors", "shapeTiers", "baseHues", "basePositions",
     "baseShapeTiers", "initialYs", "sortedYs", "_phiCache", "_rCache"}
NoArray == "null"
BaseFields == {"basePositions", "baseShapeTiers", "baseHues", "initialYs", "sortedYs"}

\* the constructor: every base field and every attribute is null
NoRefs ==
    [f \in BaseFields \cup {"position", "color", "shapeTier"} |-> NoArray]

\* (variant: the base fields keep the arrays they are given)
cacheBaselines_alias(positions, shapeTiers) ==
    [basePositions |-> positions, baseShapeTiers |-> shapeTiers,
     initialYs |-> "initialYs", sortedYs |-> "sortedYs"]

\* _cacheBaselines(positions, shapeTiers): new Float32Array(typedArray)
\* copies, initialYs is a new array and sortedYs a sorted copy of it
cacheBaselines(positions, shapeTiers) ==
    [basePositions |-> "basePositions", baseShapeTiers |-> "baseShapeTiers",
     initialYs |-> "initialYs", sortedYs |-> "sortedYs"]

\* _commitStars(positions, colors, shapeTiers): each BufferAttribute wraps
\* the array it is given
commitStars(positions, colors, shapeTiers) ==
    [position |-> positions, color |-> colors, shapeTier |-> shapeTiers]

\* the fields after a build: positions, colors and shapeTiers are new arrays
\* of the build, this.baseHues is a new array of its own
RefsOfBuild ==
    LET join(b, a) ==
            [basePositions |-> b.basePositions, baseShapeTiers |-> b.baseShapeTiers,
             baseHues |-> "baseHues",
             initialYs |-> b.initialYs, sortedYs |-> b.sortedYs,
             position |-> a.position, color |-> a.color, shapeTier |-> a.shapeTier]
    IN  join(cacheBaselines("positions", "shapeTiers"),
             commitStars("positions", "colors", "shapeTiers"))

\* every array of the build is new and filled by the build; the smoothing
\* caches are not touched by it
HeapOfBuild(heap) ==
    [n \in ArrayNames |-> IF n \in {"_phiCache", "_rCache"} THEN heap[n] ELSE "built"]

\* the arrays a frame writes: tiers[i] (line 967), this._phiCache[i] (1034),
\* this._rCache[i] (1054), positions[bi + 0..2] (1118-1120) and
\* colors[bi + 0..2] (1148-1150), the first and the last two through the
\* geometry's attributes
HeapOfFrame(heap, ref) ==
    [n \in ArrayNames |->
        IF n \in {ref.shapeTier, "_phiCache", "_rCache", ref.position, ref.color}
        THEN "frame" ELSE heap[n]]

\* a NeuralGalaxy instance after its constructor: no stars yet; the analyser
\* is the shared one, which may be absent
StarsInit ==
    /\ PureIdle
    /\ AppIdle
    /\ gal \in {[stars |-> NoStars, builds |-> 0, analyser |-> a,
                 tiersLive |-> "none", phiCache |-> NoCache, rCache |-> NoCache,
                 prevPhiOf |-> 0, prevROf |-> 0,
                 ref |-> NoRefs, heap |-> [n \in ArrayNames |-> "none"],
                 op |-> "constructor", arg |-> 0] :
                   a \in BOOLEAN}

\* this.createGalaxyFromNeuralMap(data), then _cacheBaselines and
\* _commitStars: the new structure replaces the one held
CallCreateGalaxy(data) ==
    /\ gal.builds < MaxBuilds
    /\ \E st \in {createGalaxyFromNeuralMap(data)} :
           gal' = [gal EXCEPT !.stars = [count |-> st.count,
                                         baseShapeTiers |-> st.baseShapeTiers,
                                         neutral |-> st.neutral,
                                         build |-> gal.builds + 1],
                              !.builds = @ + 1,
                              !.tiersLive = "base",
                              !.ref = RefsOfBuild,
                              !.heap = HeapOfBuild(@),
                              !.op = "createGalaxyFromNeuralMap",
                              !.arg = Len(data)]
    /\ UNCHANGED <<pureVars, appVars>>

\* the frame's use of the caches, for every point i:
\*   const prevPhi = this._phiCache[i] ?? phi0; ...; this._phiCache[i] = phi
\*   const prevR = this._rCache[i] ?? rBase; ...; this._rCache[i] = rS
\* prevPhiOf / prevROf: the build whose smoothed values were read
Smooth(g, phi, r) ==
    [g EXCEPT !.prevPhiOf = phi.holds, !.prevROf = r.holds,
              !.phiCache = [phi EXCEPT !.holds = g.stars.build],
              !.rCache = [r EXCEPT !.holds = g.stars.build],
              !.tiersLive = "blended",
              !.heap = HeapOfFrame(@, g.ref),
              !.op = "updateStars", !.arg = 1]

\* one frame of updateStars(): nothing without stars or analyser; otherwise
\* the caches are sized, every point is smoothed against its cache entry and
\* the shape-tier attribute is overwritten by the blended tiers
updateStars(g) ==
    IF g.stars = NoStars \/ ~g.analyser
    THEN [g EXCEPT !.op = "updateStars", !.arg = 0]
    ELSE Smooth(g, EnsureCache(g.phiCache, g.stars.count, g.stars.build),
                   EnsureCache(g.rCache, g.stars.count, g.stars.build))

CallUpdateStars ==
    /\ gal' = updateStars(gal)
    /\ UNCHANGED <<pureVars, appVars>>

StarsNext ==
    \/ \E data \in StarData : CallCreateGalaxy(data)
    \/ CallUpdateStars

SpecStars == StarsInit /\ [][StarsNext]_vars

\* C12: right after createGalaxyFromNeuralMap was called with an empty list
\* the instance holds a non-empty structure built by the neutral spiral, with
\* exactly N = 900 points, each of shape tier 1.
C12_EmptyListNeutralSpiral ==
    (gal.op = "createGalaxyFromNeuralMap" /\ gal.arg = 0) =>
        /\ gal.stars # NoStars
        /\ gal.stars.neutral
        /\ gal.stars.count = StarsMin
        /\ gal.stars.count > 0
        /\ Len(gal.stars.baseShapeTiers) = gal.stars.count
        /\ \A k \in DOMAIN gal.stars.baseShapeTiers : gal.stars.baseShapeTiers[k] = 1
        /\ gal.tiersLive = "base"

\* the empty list was passed to an instance that already held a structure
\* built from records
C12_Witness ==
    /\ gal.op = "createGalaxyFromNeuralMap"
    /\ gal.arg = 0
    /\ gal.builds > 1
    /\ gal.stars.count = StarsMin

\* C20: in every frame that updates the points, both smoothing caches have
\* the length of the current point count, and the previous values read from
\* them are either the zeros of a new array or values smoothed for the
\* structure now held, also when the structure before it had the same point
\* count.
C20_CachesPerStructure ==
    (gal.op = "updateStars" /\ gal.arg = 1) =>
        /\ gal.phiCache.len = gal.stars.count
        /\ gal.rCache.len = gal.stars.count
        /\ gal.prevPhiOf \in {0, gal.stars.build}
        /\ gal.prevROf \in {0, gal.stars.build}

(* The page: geometry held by a NeuralGalaxy instance *)
\* C13: every NeuralGalaxy instance that was constructed and not yet disposed
\* of holds a non-empty point set, also when no audio has been loaded.
C13_AlwaysGeometry ==
    \A i \in DOMAIN insts :
        (insts[i].kind = "neuralGalaxy" /\ ~insts[i].released) => insts[i].stars > 0

(* The page: failures of decoding and of resume() *)
\* C14: a load whose decoding fails writes nothing: neither the step that
\* calls loadFile (which pauses) nor the step in which the decode is rejected
\* changes the transport's audioBuffer or duration, the shared buffer and
\* hash, the saved structure, the current mode or any field of any mode
\* instance; no generator runs (onNewAudio is not called), the current
\* instance keeps its frame callback, and the handler ends with the rejection.
C14_DecodeFailureKeepsStructure ==
    [][last'.op \in {"fileChange", "decodeFail"} =>
          /\ transport'.audioBuffer = transport.audioBuffer
          /\ transport'.duration = transport.duration
          /\ <<shared, lastMapData, currentVisualizer, insts, rafQueue>>'
                 = <<shared, lastMapData, currentVisualizer, insts, rafQueue>>
          /\ last'.genRuns = 0
          /\ (last'.op = "decodeFail" =>
                /\ Len(tasks') < Len(tasks)
                /\ transport' = transport
                /\ buttons' = buttons)]_vars

\* decoding failed while a structure built from earlier audio was held
C14_Witness ==
    /\ last.op = "decodeFail"
    /\ transport.audioBuffer # NoBuffer
    /\ currentVisualizer # NoInst
    /\ insts[currentVisualizer].audioBuffer = transport.audioBuffer
    /\ currentVisualizer \in rafQueue
    /\ ~transport.isPlaying

\* C15: when audioContext.resume() is rejected during play(), the transport
\* is left paused with no source started and the play button enabled.
C15_ResumeFailureStaysPaused ==
    last.op = "resumeFail" =>
        /\ ~transport.isPlaying
        /\ transport.source = 0
        /\ ~buttons.play

(***************************************************************************)
(* NeuralGalaxy: the feature extractor (class AudioFeatures).  Numbers in  *)
(* [0, 1] and the configuration values are kept in ten-thousandths, with   *)
(* products rounded down.                                                  *)
(***************************************************************************)
MaxFrames == 3
\* analyser.frequencyBinCount for the smallest fftSize
Bins == 16

\* 1.0
One == 10000

\* DEFAULTS.audio and DEFAULTS.impact
bassEnd        == 1200
lowMidEnd      == 3500
highMidEnd     == 7000
envLerp        == 350
envHold        == 9650
midPulseHold   == 8800
midPulseIn     == 1200
sensGainMin    == 4000
sensGainMaxAdd == 28000
bassHitAttack  == 2200
bassHitDecay   == 8600

\* the upper clamps of this.midPulse and this.bassHit
MidPulseMax == 15000
BassHitMax  == 12500

\* THREE.MathUtils.clamp(value, min, max)
MathUtils_clamp(value, min, max) == Max(min, Min(max, value))

\* the AudioFeatures constructor
Features_constructor ==
    [prevLowMid |-> 0, prevBass |-> 0, bassEnv |-> 0, trebleEnv |-> 0,
     midPulse |-> 0, bassHit |-> 0]

RECURSIVE SumBins(_, _, _)
\* the sum of dataArray[i] for lo <= i < hi (indices from 0)
SumBins(dataArray, lo, hi) ==
    IF lo >= hi THEN 0 ELSE dataArray[lo + 1] + SumBins(dataArray, lo + 1, hi)

\* (n ? sum / n : 0) / 255 over the bins lo <= i < hi
BandEnergy(dataArray, lo, hi) ==
    IF hi <= lo THEN 0
    ELSE (SumBins(dataArray, lo, hi) * One) \div ((hi - lo) * 255)

\* AudioFeatures._computeBands(dataArray)
Features_computeBands(dataArray) ==
    LET len == Len(dataArray)
        cut(frac) == (len * frac) \div One
    IN  IF len = 0 THEN [bass |-> 0, lowMid |-> 0, highMid |-> 0, treble |-> 0]
        ELSE [bass    |-> BandEnergy(dataArray, 0, cut(bassEnd)),
              lowMid  |-> BandEnergy(dataArray, Max(0, cut(bassEnd)),
                                     Max(cut(bassEnd), cut(lowMidEnd))),
              highMid |-> BandEnergy(dataArray, Max(cut(bassEnd), cut(lowMidEnd)),
                                     Max(cut(lowMidEnd), cut(highMidEnd))),
              treble  |-> BandEnergy(dataArray, Max(cut(lowMidEnd), cut(highMidEnd)),
                                     len)]

\* (variant: the pulse rises on a fall of the low-mid band as well)
RawPulse_abs(dLowMid) == Abs(dLowMid) * 9

\* const rawPulse = Math.max(0, dLowMid * 9.0)
RawPulse(dLowMid) == Max(0, dLowMid * 9)

\* (variant: the bass hit is kept unclamped)
ClampBassHit_none(x) == x

\* this.bassHit = THREE.MathUtils.clamp(this.bassHit, 0, 1.25)
ClampBassHit(x) == MathUtils_clamp(x, 0, BassHitMax)

\* AudioFeatures.sample(sensNorm, cfg) once the bands are computed:
\* [f |-> the extractor's fields after the call, out |-> the returned frame]
Features_update(f, bands, sensNorm) ==
    LET sensGain == sensGainMin + (sensNorm * sensGainMaxAdd) \div One
        target(band) == MathUtils_clamp((band * sensGain) \div One, 0, One)
        env(e, band) == (e * envHold + target(band) * envLerp) \div One
        midPulse == MathUtils_clamp(
                        (f.midPulse * midPulseHold
                           + RawPulse(bands.lowMid - f.prevLowMid) * midPulseIn) \div One,
                        0, MidPulseMax)
        \* Math.max(0, dBass) * (10.0 + sensNorm * 20.0), the factor in hundredths
        hit == (Max(0, bands.bass - f.prevBass)
                  * (1000 + (sensNorm * 2000) \div One)) \div 100
        bassHit == ClampBassHit((f.bassHit * bassHitDecay + hit * bassHitAttack) \div One)
        made(f1) ==
            [f |-> f1,
             out |-> [bands |-> bands,
                      sensGain |-> sensGain,
                      pulseScaled |-> MathUtils_clamp(
                          (f1.midPulse * (6500 + (sensNorm * 13500) \div One)) \div One,
                          0, One),
                      bassEnv |-> MathUtils_clamp(f1.bassEnv, 0, One),
                      trebleEnv |-> MathUtils_clamp(f1.trebleEnv, 0, One),
                      bassHit |-> f1.bassHit,
                      loudness |-> (bands.bass + bands.lowMid + bands.highMid
                                      + bands.treble) \div 4]]
    IN  made([prevLowMid |-> bands.lowMid, prevBass |-> bands.bass,
              bassEnv |-> env(f.bassEnv, bands.bass),
              trebleEnv |-> env(f.trebleEnv, bands.treble),
              midPulse |-> midPulse, bassHit |-> bassHit])

\* AudioFeatures.sample(sensNorm, cfg) when getByteFrequencyData fills
\* this.data with dataArray
Features_sample(f, dataArray, sensNorm) ==
    Features_update(f, Features_computeBands(dataArray), sensNorm)

\* frequency snapshots: one level per band over Bins bins, given as
\* <<bass, lowMid, highMid, treble>>
BandLevels ==
    {<<b, l, ht[1], ht[2]>> : b \in {0, 255}, l \in {0, 255},
                              ht \in {<<0, 0>>, <<255, 0>>, <<0, 255>>}}
      \cup {<<120, 60, 200, 30>>}

SnapshotOf(lv) ==
    [i \in 1..Bins |->
        IF (i - 1) < (Bins * bassEnd) \div One THEN lv[1]
        ELSE IF (i - 1) < (Bins * lowMidEnd) \div One THEN lv[2]
        ELSE IF (i - 1) < (Bins * highMidEnd) \div One THEN lv[3]
        ELSE lv[4]]

Silent(dataArray) == \A i \in DOMAIN dataArray : dataArray[i] = 0

\* _getSensitivityNorm(): the slider at its minimum, middle and maximum
SensValues == {0, One \div 2, One}

NoFrame == [bands |-> [bass |-> 0, lowMid |-> 0, highMid |-> 0, treble |-> 0]]

\* a new extractor; the sensitivity stays as drawn
FeatInit ==
    /\ PureIdle
    /\ AppIdle
    /\ gal \in {[features |-> Features_constructor, sensNorm |-> s,
                 data |-> [i \in 1..Bins |-> 0], out |-> NoFrame,
                 frames |-> 0] : s \in SensValues}

\* this.features.sample(sensNorm, this.cfg) on the snapshot of levels lv
CallSample(lv) ==
    /\ gal.frames < MaxFrames
    /\ \E r \in {Features_sample(gal.features, SnapshotOf(lv), gal.sensNorm)} :
           gal' = [gal EXCEPT !.features = r.f, !.out = r.out,
                              !.data = SnapshotOf(lv), !.frames = @ + 1]
    /\ UNCHANGED <<pureVars, appVars>>

FeatNext == \E lv \in BandLevels : CallSample(lv)

SpecFeat == FeatInit /\ [][FeatNext]_vars

\* C16: after every sample call the persisted bass and treble envelopes lie
\* in [0, 1], the bass-hit value in [0, 1.35] and the mid-pulse value in
\* [0, 1.5], for snapshots with bins in 0..255 and a sensitivity in [0, 1].
C16_FeatureRanges ==
    /\ 0 <= gal.features.bassEnv /\ gal.features.bassEnv <= One
    /\ 0 <= gal.features.trebleEnv /\ gal.features.trebleEnv <= One
    /\ 0 <= gal.features.bassHit /\ gal.features.bassHit <= (135 * One) \div 100
    /\ 0 <= gal.features.midPulse /\ gal.features.midPulse <= (15 * One) \div 10

\* both clamps were at work: the bass hit and the mid pulse are at their
\* upper clamps after a frame at full sensitivity
C16_Witness ==
    /\ gal.frames > 1
    /\ gal.features.bassHit = BassHitMax
    /\ gal.features.midPulse = MidPulseMax
    /\ gal.features.bassEnv > 0

\* C17: a frame on an all-zero snapshot returns four band energies of 0, and
\* leaves the bass-hit and mid-pulse values non-negative, not above their
\* values before the frame, and strictly below them when they were positive.
C17_SilenceDecays ==
    [][Silent(gal'.data) =>
          /\ gal'.out.bands = [bass |-> 0, lowMid |-> 0, highMid |-> 0, treble |-> 0]
          /\ 0 <= gal'.features.bassHit /\ gal'.features.bassHit <= gal.features.bassHit
          /\ 0 <= gal'.features.midPulse /\ gal'.features.midPulse <= gal.features.midPulse
          /\ (gal.features.bassHit > 0 => gal'.features.bassHit < gal.features.bassHit)
          /\ (gal.features.midPulse > 0 => gal'.features.midPulse < gal.features.midPulse)]_vars

\* two silent frames in a row after a loud one, with both values still
\* positive
C17_Witness ==
    /\ gal.frames = 3
    /\ Silent(gal.data)
    /\ gal.features.prevBass = 0 /\ gal.features.prevLowMid = 0
    /\ 0 < gal.features.bassHit /\ gal.features.bassHit < BassHitMax
    /\ 0 < gal.features.midPulse

(***************************************************************************)
(* NeuralGalaxy.updateStars: the three zone weights of a point.  Numbers   *)
(* are ten-thousandths; a weight is kept as the fraction the code divides, *)
(* [num, den] in millionths, so that sums of weights are exact.            *)
(***************************************************************************)
ExpTerms == 10

\* 1 / e
InvE == 3679

RECURSIVE ExpSeries(_, _, _)
\* Math.exp(-r) for 0 <= r < 1: 1 - r (1 - r/2 (1 - r/3 ( ... )))
ExpSeries(r, j, t) ==
    IF j = 0 THEN t ELSE ExpSeries(r, j - 1, One - (r * t) \div (j * One))

RECURSIVE ExpPow(_, _)
\* p / e^q
ExpPow(q, p) ==
    IF q = 0 \/ p = 0 THEN p ELSE ExpPow(q - 1, (p * InvE) \div One)

\* Math.exp(-x) for x >= 0
ExpNeg(x) == ExpPow(x \div One, ExpSeries(x % One, ExpTerms, One))

\* _sigmoid(x): 1 / (1 + Math.exp(-x)); for x < 0 the quotient is taken as
\* e / (1 + e) with e = Math.exp(x)
sigmoid(x) ==
    LET ofExp(e) == IF x >= 0 THEN (One * One) \div (One + e)
                    ELSE (e * One) \div (One + e)
    IN  ofExp(ExpNeg(Abs(x)))

\* (yNorm - edge) / k
ZoneArg(yNorm, edge, k) == ((yNorm - edge) * One) \div k

\* _logisticWindow(y, a, b, k)
logisticWindow(y, a, b, k) ==
    Max(0, sigmoid(ZoneArg(y, a, k)) - sigmoid(ZoneArg(y, b, k)))

\* (variant: a bass weight that rises with y)
bassWeight_rising(s) == s

\* const bassW = 1.0 - this._sigmoid((yNorm - bassEdgeN) / k)
bassWeight(s) == One - s

\* lines 939-941: the edges and the softness after their clamps
BlendParams(blend) ==
    [bassEdgeN   |-> MathUtils_clamp(blend.bassEdge, 200, 4800),
     trebleEdgeN |-> MathUtils_clamp(blend.trebleEdge, 5200, 9800),
     k           |-> MathUtils_clamp(blend.softness, 150, 2500)]

\* lines 957-967: sumW = Math.max(1e-6, bassW + midW + trebleW), the three
\* quotients by sumW, and tiers[i] = 0.0 * wB + 1.0 * wM + 2.0 * wT
zoneWeights(yNorm, p) ==
    LET quotients(bassW, midW, trebleW) ==
            LET over(sumW) ==
                    [wB   |-> [num |-> 100 * bassW, den |-> sumW],
                     wM   |-> [num |-> 100 * midW, den |-> sumW],
                     wT   |-> [num |-> 100 * trebleW, den |-> sumW],
                     tier |-> [num |-> 100 * midW + 2 * (100 * trebleW), den |-> sumW]]
            IN  over(Max(1, 100 * (bassW + midW + trebleW)))
    IN  quotients(bassWeight(sigmoid(ZoneArg(yNorm, p.bassEdgeN, p.k))),
                  logisticWindow(yNorm, p.bassEdgeN, p.trebleEdgeN, p.k),
                  sigmoid(ZoneArg(yNorm, p.trebleEdgeN, p.k)))

\* yNorm is clamped to [0, 1]: twenty-one values of it
YSteps == 20
YNorms == {(j * One) \div YSteps : j \in 0..YSteps}

\* cfg.blend: the defaults, the presets' softness, and values the clamps cut
BlendConfigs ==
    {[bassEdge |-> b, trebleEdge |-> t, softness |-> s] :
        b \in {0, 2200, 6000}, t \in {3000, 7800, 12000},
        s \in {10, 800, 900, 1100, 5000}}

NoWeights == [wB |-> [num |-> 0, den |-> 0]]

ZoneInit ==
    /\ PureIdle
    /\ AppIdle
    /\ gal \in {[yNorm |-> y, blend |-> c, p |-> BlendParams(c),
                 w |-> NoWeights, op |-> "none"] :
                   y \in YNorms, c \in BlendConfigs}

\* the weights of one point in one frame
CallZoneWeights ==
    /\ gal.op = "none"
    /\ gal' = [gal EXCEPT !.w = zoneWeights(gal.yNorm, gal.p), !.op = "zoneWeights"]
    /\ UNCHANGED <<pureVars, appVars>>

ZoneNext == CallZoneWeights

SpecZone == ZoneInit /\ [][ZoneNext]_vars

\* C18: for y in [0, 1] and the clamped edges and softness, the three zone
\* weights are each >= 0 and sum to 1, and the shape tier wM + 2 wT lies in
\* [0, 2].
C18_ZoneWeights ==
    gal.op = "zoneWeights" =>
        /\ 200 <= gal.p.bassEdgeN /\ gal.p.bassEdgeN <= 4800
        /\ 5200 <= gal.p.trebleEdgeN /\ gal.p.trebleEdgeN <= 9800
        /\ 150 <= gal.p.k /\ gal.p.k <= 2500
        /\ gal.w.wB.den > 0
        /\ gal.w.wB.num >= 0 /\ gal.w.wM.num >= 0 /\ gal.w.wT.num >= 0
        /\ gal.w.wB.num + gal.w.wM.num + gal.w.wT.num = gal.w.wB.den
        /\ gal.w.wM.den = gal.w.wB.den /\ gal.w.wT.den = gal.w.wB.den
        /\ gal.w.tier.den = gal.w.wB.den
        /\ 0 <= gal.w.tier.num /\ gal.w.tier.num <= 2 * gal.w.tier.den

\* a point between the edges with all three weights positive, under a
\* softness that the clamp cut
C18_Witness ==
    /\ gal.op = "zoneWeights"
    /\ gal.blend.softness > gal.p.k
    /\ gal.w.wB.num > 0 /\ gal.w.wM.num > gal.w.wB.num /\ gal.w.wT.num > 0

(***************************************************************************)
(* NeuralGalaxy.updateStars: the arm lane of a point.  Angles are whole    *)
(* degrees; the pull strength is in ten-thousandths.  A point whose base   *)
(* position is NaN has NaN for both angles and for the pull strength.      *)
(***************************************************************************)
\* Math.PI * 2
TwoPi == 360

\* a < b on numbers: false when either is NaN
Less(a, b) == a # NaN /\ b # NaN /\ a < b

\* THREE.MathUtils.clamp on a number that may be NaN
ClampNum(value, min, max) == IF value = NaN THEN NaN ELSE MathUtils_clamp(value, min, max)

\* THREE.MathUtils.lerp(x, y, t) = (1 - t) * x + t * y
lerp(x, y, t) ==
    IF x = NaN \/ y = NaN \/ t = NaN THEN NaN
    ELSE ((One - t) * x + t * y) \div One

\* const armAngle = (armId / armsCount) * Math.PI * 2, armId = i % armsCount
ArmAngle(i, armsCount) == ((i % armsCount) * TwoPi) \div armsCount

\* (variant: the lane angle is never wrapped)
WrapNeeded_never(spiralBase, theta) == FALSE

\* the test of `while (spiralBase < theta)`
WrapNeeded(spiralBase, theta) == Less(spiralBase, theta)

\* cfg.arms.countMin .. countMax
ArmCounts == {3, 7}
\* theta before the lane pull: theta0 in [-180, 180] plus flow, twist and tide
Thetas == {-200, -180, -1, 0, 45, 119, 120, 121, 180, 359, 360, 400, 725}
\* rBase * cfg.arms.pitch
LaneAdvances == {0, 2, 75}
\* tightness * snapBoost * (...) * (...) before its clamp to [0, 1]
PullProducts == {-500, 0, 3300, One, 14000}

ArmPoints ==
    {[theta |-> th, spiralBase |-> ArmAngle(i, n) + adv,
      armAssert |-> ClampNum(pr, 0, One)] :
        th \in Thetas, i \in 0..2, n \in ArmCounts, adv \in LaneAdvances,
        pr \in PullProducts}
      \cup {[theta |-> NaN, spiralBase |-> NaN, armAssert |-> NaN]}

\* the point is at the while loop of line 1008
ArmInit ==
    /\ PureIdle
    /\ AppIdle
    /\ gal \in {[theta |-> pt.theta, spiralBase |-> pt.spiralBase,
                 armAssert |-> pt.armAssert, thetaIn |-> pt.theta,
                 baseIn |-> pt.spiralBase, iters |-> 0, pc |-> "wrap"] :
                   pt \in ArmPoints}

\* one turn of the loop: spiralBase += Math.PI * 2
WrapStep ==
    /\ gal.pc = "wrap"
    /\ WrapNeeded(gal.spiralBase, gal.theta)
    /\ gal' = [gal EXCEPT !.spiralBase = @ + TwoPi, !.iters = @ + 1]
    /\ UNCHANGED <<pureVars, appVars>>

\* the test fails and the loop is left
WrapExit ==
    /\ gal.pc = "wrap"
    /\ ~WrapNeeded(gal.spiralBase, gal.theta)
    /\ gal' = [gal EXCEPT !.pc = "lerp"]
    /\ UNCHANGED <<pureVars, appVars>>

\* theta = THREE.MathUtils.lerp(theta, spiralBase, armAssert)
LerpStep ==
    /\ gal.pc = "lerp"
    /\ gal' = [gal EXCEPT !.theta = lerp(gal.theta, gal.spiralBase, gal.armAssert),
                          !.pc = "done"]
    /\ UNCHANGED <<pureVars, appVars>>

ArmNext == WrapStep \/ WrapExit \/ LerpStep

\* the statements of one loop body run to their end
SpecArm == ArmInit /\ [][ArmNext]_vars /\ WF_vars(ArmNext)

\* what holds of the lane pull at every point of it
ArmForward ==
    /\ gal.iters > 0 =>
          /\ gal.spiralBase = gal.baseIn + gal.iters * TwoPi
          /\ gal.spiralBase - TwoPi < gal.thetaIn
    /\ (gal.pc \in {"lerp", "done"} /\ gal.thetaIn # NaN) =>
          /\ gal.spiralBase # NaN
          /\ gal.spiralBase >= gal.thetaIn
          /\ 0 <= gal.armAssert /\ gal.armAssert <= One
    /\ gal.pc = "done" =>
          /\ ~Less(gal.theta, gal.thetaIn)
          /\ gal.thetaIn # NaN =>
                (gal.theta # NaN /\ gal.thetaIn <= gal.theta
                    /\ gal.theta <= gal.spiralBase)

\* C19: the forward-wrapping loop ends, after no more turns than bring the
\* lane angle past the current angle; it leaves the lane angle >= the
\* current angle, and the lerp that follows, with a pull strength in [0, 1],
\* does not move the angle backward.  On a point whose angles are NaN the
\* loop ends at its first test and the angle stays NaN.
C19_ForwardOnly == []ArmForward /\ <>(gal.pc = "done")

\* the loop turned twice and the lerp then moved the angle forward, part of
\* the way to the lane
C19_Witness ==
    /\ gal.pc = "done"
    /\ gal.iters = 2
    /\ gal.thetaIn < gal.theta
    /\ gal.theta < gal.spiralBase

(* Content hash: the range of the running hash *)
\* a JS number <<high part, low 16 bits>> within [-2^31, 2^31 - 1]
InInt32(n) == -32768 <= n[1] /\ n[1] <= 32767

\* C21: in every computeAudioHash call made, the value of `hash` after the
\* loop, whose absolute value is rendered in hexadecimal, lies in
\* [-2^31, 2^31 - 1].
C21_HashInInt32 ==
    \A k \in DOMAIN pLog :
        IF pLog[k].fn = "NeuralMap"
        THEN InInt32(Map_hashValue(Buf(pLog[k].arg)))
        ELSE InInt32(Galaxy_hashValue(Buf(pLog[k].arg)))

(* The arm lane: how far ahead the wrapped lane angle is *)
\* C22: once the loop is left, the lane angle is the nearest equivalent angle
\* ahead of the current angle: 0 <= target - current < 2 pi.
C22_NearestAhead ==
    (gal.pc \in {"lerp", "done"} /\ gal.thetaIn # NaN) =>
        /\ 0 <= gal.spiralBase - gal.thetaIn
        /\ gal.spiralBase - gal.thetaIn < TwoPi

(* The generated structure: which connections a node has *)
\* the ordered pairs (i, j), i # j, of nodes closer than the threshold, in
\* row-major order (ids from 0)
ClosePairs(nodes) ==
    LET n == Len(nodes)
        close(pr) == pr[1] # pr[2]
                       /\ DistLess(nodes[pr[1] + 1].position, nodes[pr[2] + 1].position)
    IN  SelectSeq([k \in 1..(n * n) |-> <<(k - 1) \div n, (k - 1) % n>>], close)

\* the closure states of a stream started at h0: element m + 1 is the state
\* after (and the value of) the m-th draw
StreamStates(h0, count) ==
    LET next(acc, m) == Append(acc, LcgStep(acc[m]))
    IN  FoldRange(next, <<h0>>, 1, count)

\* what the claim says of a generated structure: the k-th close pair in
\* row-major order takes the k-th draw after the two draws of each node, and
\* j is a connection of i when that draw is below 0.7
LinksOf(nodes, h0) ==
    LET n == Len(nodes)
        drawn(pairs, st) ==
            LET kept(i) ==
                    LET mine(k) == pairs[k][1] = i /\ Below07(st[2 * n + k + 1])
                        idx == SelectSeq([k \in 1..Len(pairs) |-> k], mine)
                    IN  [m \in 1..Len(idx) |-> pairs[idx[m]][2]]
            IN  [h |-> st[Len(st)], links |-> [i \in 1..n |-> kept(i - 1)]]
        with(pairs) == drawn(pairs, StreamStates(h0, 2 * n + Len(pairs)))
    IN  with(ClosePairs(nodes))

ExpectedLinks ==
    [key \in GenKeys |-> LinksOf(MapDNA_results[key].nodes, key[2])]

\* the key of the calls recorded in a run: the drawn file and stream
KeyOfRun == <<pIn.buf, FoldChars(OrSeed(pIn.seed))>>

\* C23: in every structure returned, by either generator, node i's
\* connection list is exactly the ascending list of the j # i that are
\* closer than 8 to i and whose draw was below 0.7, the draws being taken in
\* row-major order and only for pairs within the threshold; right after a
\* recorded call the stream has advanced by exactly those draws.
C23_ConnectionRule ==
    /\ \A k \in DOMAIN pLog : \A i \in DOMAIN pLog[k].out :
          /\ pLog[k].out[i].connections = ExpectedLinks[KeyOfRun].links[i]
          /\ \A a, b \in DOMAIN pLog[k].out[i].connections :
                /\ pLog[k].out[i].connections[a] # i - 1
                /\ a < b => pLog[k].out[i].connections[a]
                              < pLog[k].out[i].connections[b]
    /\ (pLog # <<>> /\ ~pBetween) => pRandH = ExpectedLinks[KeyOfRun].h

\* a structure in which some close pair drew 0.7 or more, some node has two
\* connections, and some connection i -> j has no j -> i
C23_Witness ==
    /\ pLog # <<>>
    /\ \E i \in DOMAIN pLog[1].out :
          /\ Len(pLog[1].out[i].connections) >= 2
          /\ \E a \in DOMAIN pLog[1].out[i].connections :
                \A b \in DOMAIN pLog[1].out[pLog[1].out[i].connections[a] + 1].connections :
                    pLog[1].out[pLog[1].out[i].connections[a] + 1].connections[b] # i - 1
    /\ \E i, j \in DOMAIN pLog[1].out :
          /\ i # j
          /\ DistLess(pLog[1].out[i].position, pLog[1].out[j].position)
          /\ \A a \in DOMAIN pLog[1].out[i].connections :
                pLog[1].out[i].connections[a] # j - 1

(* The generated structure: the slices of the samples *)
\* MapDNA.js lines 51-53, NeuralMap.js line 204: the sample indices
\* <<first, one past last>> of node i's slice; subarray and slice clamp both
\* ends to the length of the data
SliceBounds(len, nodeCount, i) ==
    LET step == stepOf(len, nodeCount)
    IN  <<Min(Max(i * step, 0), len), Min(Max((i + 1) * step, 0), len)>>

\* C24: the slices of a generated structure are contiguous and do not
\* overlap, all but the last have the same length, and every sample of the
\* file is inside one of them.
C24_SlicesCoverSamples ==
    \A k \in DOMAIN pLog :
        LET len == Buf(pIn.buf).len
            n   == Len(pLog[k].out)
            sl(i) == SliceBounds(len, n, i)
        IN  /\ sl(0)[1] = 0
            /\ \A i \in 0..(n - 2) :
                  /\ sl(i)[2] = sl(i + 1)[1]
                  /\ sl(i)[2] - sl(i)[1] = sl(0)[2] - sl(0)[1]
            /\ sl(n - 1)[2] - sl(n - 1)[1] <= sl(0)[2] - sl(0)[1]
            /\ sl(n - 1)[2] = len

(* NeuralGalaxy: base values and the frames *)
\* C25: a call of updateStars, whether it returns at once or updates the
\* points, leaves the structure as built and the arrays held by
\* basePositions, baseShapeTiers, baseHues, initialYs and sortedYs as the
\* build wrote them; a frame that updates the points writes the position,
\* colour and shape-tier attribute arrays and the two smoothing caches, and
\* no other array.
C25_BaseValuesKept ==
    [][gal'.op = "updateStars" =>
          /\ gal'.stars = gal.stars
          /\ gal'.ref = gal.ref
          /\ \A f \in BaseFields :
                gal.ref[f] # NoArray =>
                    /\ gal'.heap[gal'.ref[f]] = gal.heap[gal.ref[f]]
                    /\ gal'.heap[gal'.ref[f]] = "built"
          /\ {n \in ArrayNames : gal'.heap[n] # gal.heap[n]}
                 \subseteq {gal.ref.position, gal.ref.color, gal.ref.shapeTier,
                            "_phiCache", "_rCache"}
          /\ gal'.arg = 1 =>
                \A n \in {gal.ref.position, gal.ref.color, gal.ref.shapeTier,
                          "_phiCache", "_rCache"} : gal'.heap[n] = "frame"]_vars

\* a second frame in a row on a structure built from records: the attribute
\* arrays hold a frame's values, the base arrays the build's
C25_Witness ==
    /\ gal.op = "updateStars"
    /\ gal.arg = 1
    /\ ~gal.stars.neutral
    /\ gal.prevPhiOf = gal.stars.build
    /\ gal.heap[gal.ref.position] = "frame"
    /\ gal.heap[gal.ref.basePositions] = "built"

\* C26: in a frame that allocates a smoothing cache (none was held, or its
\* length differs from the point count), the previous angle and the previous
\* radius that the smoothing reads are not the zeros of the new array.
C26_FirstFrameFromBase ==
    [][(gal'.op = "updateStars" /\ gal'.arg = 1) =>
          /\ (gal.phiCache = NoCache \/ gal.phiCache.len # gal.stars.count)
                 => gal'.prevPhiOf # 0
          /\ (gal.rCache = NoCache \/ gal.rCache.len # gal.stars.count)
                 => gal'.prevROf # 0]_vars

(* The page: the playback position across pause() *)
\* AudioTransport.getCurrentTime(), in milliseconds
Transport_getCurrentTime(w) ==
    IF w.transport.audioBuffer = NoBuffer THEN 0
    ELSE IF w.transport.isPlaying
    THEN Max(0, w.actx.currentTime - w.transport.playStartTime)
    ELSE w.transport.pauseOffset

\* C27: when the 'ended' callback of a source is delivered while the
\* transport is paused (pause() has stopped and dropped the source, nothing
\* plays), the position that getCurrentTime() returns, which is the offset
\* the next play() starts from, is the one pause() stored.
C27_PausePreservesPosition ==
    [][(last'.op = "ended" /\ ~transport.isPlaying /\ transport.source = 0) =>
          /\ Transport_getCurrentTime(World)' = Transport_getCurrentTime(World)
          /\ transport'.pauseOffset = transport.pauseOffset]_vars

(* The page: the isPlaying flag and the live source *)
\* C28: a source that was started and has not stopped exists only while
\* isPlaying is true, and while isPlaying is true such a source exists or
\* its 'ended' event is still to be delivered.
C28_PlayingIffLiveSource ==
    /\ actx.srcLive => transport.isPlaying
    /\ transport.isPlaying => (actx.srcLive \/ actx.ended > 0)

(* The page: the buffer of the live source *)
\* C29: while the transport is playing a live source, that source plays the
\* transport's current audioBuffer, and playStartTime is the clock value at
\* which the source's position in that buffer is 0.
C29_LiveSourceOfCurrentBuffer ==
    (transport.isPlaying /\ actx.srcLive) =>
        /\ actx.srcBuf = transport.audioBuffer
        /\ actx.srcBase = transport.playStartTime

(* The page: the shared hash and the structure of the active mode *)
\* C30: whenever the current mode instance is active, audio is loaded and no
\* file-input handler is suspended, shared.songHash is the content hash of
\* shared.lastAudioBuffer, the transport and the instance hold that buffer,
\* the instance's hash is that hash, and the structure the instance holds is
\* what the generator returns on that buffer with that hash as seed.
C30_HashAndStructureOfLoadedAudio ==
    (/\ currentVisualizer # NoInst
     /\ insts[currentVisualizer].isActive
     /\ shared.lastAudioBuffer # NoBuffer
     /\ \A k \in DOMAIN tasks : tasks[k].kind # "decode") =>
        /\ shared.songHash = FileHash[shared.lastAudioBuffer]
        /\ transport.audioBuffer = shared.lastAudioBuffer
        /\ insts[currentVisualizer].audioBuffer = shared.lastAudioBuffer
        /\ insts[currentVisualizer].hash = shared.songHash
        /\ StructureOf(currentVisualizer) = Generated[shared.lastAudioBuffer]

\* two loads of different files have completed and the mode was switched
\* since: the instance holds the structure of the file loaded last
C30_Witness ==
    /\ loads = MaxLoads
    /\ tasks = <<>>
    /\ last.op = "decodeDone"
    /\ Len(insts) > 1
    /\ insts[currentVisualizer].isActive
    /\ shared.lastAudioBuffer = 7
    /\ \E i \in DOMAIN insts : insts[i].released /\ insts[i].audioBuffer = 2
    /\ StructureOf(currentVisualizer) = Generated[7]

=============================================================================
